---- MODULE Spec2Model ----
(***************************************************************************)
(* Model of the KataGo analysis tool: the GTP coordinate codec             *)
(* (katago/engine.py), the candidate parser, verdict construction and the  *)
(* sequential / parallel orchestration (katago/analysis.py) and the move   *)
(* tree (game/game_tree.py).                                               *)
(*                                                                         *)
(* Text is a sequence of character codes (ASCII).  Score leads are kept in *)
(* half points (3.0 points = 6), so that the float comparisons of the code *)
(* on the values used here are exact.                                      *)
(***************************************************************************)
EXTENDS Integers, Sequences, FiniteSets, TLC

VARIABLES
    \* coordinate codec (one encode / decode round)
    csize, crow, ccol, ctext, cdec, cpc,
    \* candidate parsing (one call of _parse_move_candidates)
    raw, rankReversed, parsed, ppc,
    \* verdict construction (one call of _create_position_analysis, or of
    \* GameAnalyzer.analyze_position)
    vnode, vdata, vengine, vopp, vasked, verdict, vpc,
    \* the move tree: the arena of nodes (root at index 1), the cursor, and
    \* the number of add_move / add_pass calls while nothing else was called,
    \* and the operation called last
    nodes, current, seqAdds, treeop,
    \* the parallel batch (_analyze_parallel): the main line, the stub engine's
    \* behaviour, the engines, the tasks (one per main-line node) and the results
    game, stub, rejectMode, rejectUsed, numEngines,
    elock, eboard, enext,
    tstate, tj, tdata, tres, tasked,
    presults, completed, returned, mainpc,
    \* the task indices in the order the main thread took their futures
    corder,
    \* the progress lock's holder (0: free) and the calls of the progress
    \* callback so far, as <<completed, total>>
    plock, preported,
    \* the results of start() on the engines made for the pool (engine i + 1
    \* at index i; the primary engine is engine 1), the engines of the batch,
    \* the pool, and the engines on which stop() was called
    pstart, all_engines, pool, pstopped,
    \* the sequential batch (_analyze_sequential): the main line and its nodes'
    \* properties, the loop index, the pending answer, the results, the
    \* stateless queries issued so far
    sgame, sprops, si, sdata, sresults, squeries, sanswered, spc,
    \* the engine client (KataGoEngine) and its subprocess: the process handle,
    \* the running flag, the process itself, its stdin, the stdout reader, the
    \* output queue, the commands the process has not yet answered, whether it
    \* has sent the first line of its answer to the oldest one, its stderr pipe,
    eproc, erunning, eos, estdin, ereader, equeue, einbox, pinfo, errpipe, eblocked,
    \* the call in progress, the lines it has kept, the time it has waited for
    \* the next line, the requests made so far, and the last call completed
    callpc, cop, cid, waited, clines, nreq, last,
    \* one response to lz-genmove_analyze: its lines before the 'play' line as
    \* token lists, the records the engine wrote in them, what analyze_position
    \* returned, and what _parse_move_candidates made of it
    ilines, irecs, iresult, icands, ipc,
    \* the main window: the is_analyzing flag, the whole-game analysis threads
    \* started and not yet at their first statement, those between their
    \* first statement and their finally clause, the single-position threads
    \* started and those inside analyze_position, and the clicks so far
    is_analyzing, gspawned, grunning, pspawned, prunning, uclicks

codecVars == <<csize, crow, ccol, ctext, cdec, cpc>>

parseVars == <<raw, rankReversed, parsed, ppc>>

verdictVars == <<vnode, vdata, vengine, vopp, vasked, verdict, vpc>>

treeVars == <<nodes, current, seqAdds, treeop>>

parVars == <<game, stub, rejectMode, rejectUsed, numEngines, elock, eboard, enext,
             tstate, tj, tdata, tres, tasked, presults, completed, returned, mainpc,
             corder, plock, preported, pstart, all_engines, pool, pstopped>>

progVars == <<plock, preported>>

poolVars == <<pool, pstopped>>

seqVars == <<sgame, sprops, si, sdata, sresults, squeries, sanswered, spc>>

engVars == <<eproc, erunning, eos, estdin, ereader, equeue, einbox, pinfo, errpipe, eblocked,
             callpc, cop, cid, waited, clines, nreq, last>>

infoVars == <<ilines, irecs, iresult, icands, ipc>>

uiVars == <<is_analyzing, gspawned, grunning, pspawned, prunning, uclicks>>

vars == <<csize, crow, ccol, ctext, cdec, cpc, raw, rankReversed, parsed, ppc,
          vnode, vdata, vengine, vopp, vasked, verdict, vpc,
          nodes, current, seqAdds, treeop,
          game, stub, rejectMode, rejectUsed, numEngines, elock, eboard, enext,
          tstate, tj, tdata, tres, tasked, presults, completed, returned, mainpc,
          corder, plock, preported, pstart, all_engines, pool, pstopped,
          sgame, sprops, si, sdata, sresults, squeries, sanswered, spc,
          eproc, erunning, eos, estdin, ereader, equeue, einbox, pinfo, errpipe, eblocked,
          callpc, cop, cid, waited, clines, nreq, last,
          ilines, irecs, iresult, icands, ipc,
          is_analyzing, gspawned, grunning, pspawned, prunning, uclicks>>

(***************************************************************************)
(* Text helpers: Python's str.upper, str.lower, f'{n}' and int().          *)
(***************************************************************************)
Upper(c) == IF c >= 97 /\ c <= 122 THEN c - 32 ELSE c

Lower(c) == IF c >= 65 /\ c <= 90 THEN c + 32 ELSE c

LowerStr(s) == [i \in 1..Len(s) |-> Lower(s[i])]

PassText == <<112, 97, 115, 115>>

IsDigit(c) == c >= 48 /\ c <= 57

RECURSIVE DecStr(_)
DecStr(n) ==
    IF n < 0 THEN <<45>> \o DecStr(0 - n)
    ELSE IF n < 10 THEN <<48 + n>>
    ELSE DecStr(n \div 10) \o <<48 + (n % 10)>>

RECURSIVE DigitsValue(_)
DigitsValue(s) ==
    IF Len(s) = 0 THEN 0
    ELSE 10 * DigitsValue(SubSeq(s, 1, Len(s) - 1)) + (s[Len(s)] - 48)

\* int(s): an optional sign followed by at least one digit; anything else raises
ParseInt(s) ==
    LET signed == Len(s) > 0 /\ s[1] \in {43, 45}
        digits == IF signed THEN SubSeq(s, 2, Len(s)) ELSE s
        good == Len(digits) > 0 /\ \A i \in 1..Len(digits) : IsDigit(digits[i])
    IN  IF ~good THEN [ok |-> FALSE, val |-> 0]
        ELSE [ok |-> TRUE,
              val |-> IF signed /\ s[1] = 45 THEN 0 - DigitsValue(digits)
                      ELSE DigitsValue(digits)]

(***************************************************************************)
(* Coordinate codec.                                                       *)
(***************************************************************************)
Coords(r, c) == [kind |-> "coords", row |-> r, col |-> c]

NoneCoords == [kind |-> "none", row |-> 0, col |-> 0]

RaisedCoords == [kind |-> "raise", row |-> 0, col |-> 0]

\* the column letter without the skip of 'I'
coords_to_gtp_noskip(row, col, board_size) ==
    <<65 + col>> \o DecStr(board_size - row)

coords_to_gtp(row, col, board_size) ==
    <<(IF col < 8 THEN 65 + col ELSE 65 + col + 1)>> \o DecStr(board_size - row)

gtp_to_coords(gtp_move, board_size) ==
    IF LowerStr(gtp_move) = PassText THEN NoneCoords
    ELSE IF Len(gtp_move) = 0 THEN RaisedCoords
    ELSE LET col_letter == Upper(gtp_move[1])
             row_num == ParseInt(SubSeq(gtp_move, 2, Len(gtp_move)))
             col == IF col_letter < 73 THEN col_letter - 65 ELSE col_letter - 65 - 1
         IN  IF ~row_num.ok THEN RaisedCoords
             ELSE Coords(board_size - row_num.val, col)

(***************************************************************************)
(* The parts of the state a specification does not use stay at rest.       *)
(***************************************************************************)
CodecIdle ==
    /\ csize = 0 /\ crow = 0 /\ ccol = 0
    /\ ctext = <<>> /\ cdec = NoneCoords /\ cpc = "idle"

ParseIdle == raw = <<>> /\ rankReversed = FALSE /\ parsed = <<>> /\ ppc = "idle"

VerdictIdle ==
    /\ vnode = <<>> /\ vdata = <<>> /\ vengine = FALSE /\ vopp = <<>>
    /\ vasked = FALSE /\ verdict = <<>> /\ vpc = "idle"

TreeIdle == nodes = <<>> /\ current = 0 /\ seqAdds = 0 /\ treeop = "none"

ParIdle ==
    /\ game = <<>> /\ stub = <<>> /\ rejectMode = "never" /\ rejectUsed = FALSE
    /\ numEngines = 0 /\ elock = <<>> /\ eboard = <<>> /\ enext = <<>>
    /\ tstate = <<>> /\ tj = <<>> /\ tdata = <<>> /\ tres = <<>> /\ tasked = <<>>
    /\ presults = <<>> /\ completed = 0 /\ returned = <<>> /\ mainpc = "idle"
    /\ corder = <<>>
    /\ plock = 0 /\ preported = <<>>
    /\ pstart = <<>> /\ all_engines = <<>> /\ pool = <<>> /\ pstopped = {}

SeqIdle ==
    /\ sgame = <<>> /\ sprops = <<>> /\ si = 0 /\ sdata = <<>> /\ sresults = <<>>
    /\ squeries = <<>> /\ sanswered = {} /\ spc = "idle"

\* what a call keeps of the lines it has read: the kind of the first one
\* (response_lines[0], lines 121 and 139) and the requests they answer
NoLines == [first |-> "none", from |-> 0, used |-> {}]

NoCall == [op |-> "none", result |-> "none", alive |-> FALSE, id |-> 0, used |-> {}]

\* KataGoEngine.__init__, lines 25-30, and no subprocess
EngineCreated ==
    /\ eproc = "none" /\ erunning = FALSE /\ eos = "none" /\ estdin = "none"
    /\ ereader = "none" /\ equeue = <<>> /\ einbox = <<>> /\ pinfo = FALSE
    /\ errpipe = 0 /\ eblocked = FALSE
    /\ callpc = "idle" /\ cop = "none" /\ cid = 0 /\ waited = 0 /\ clines = NoLines
    /\ nreq = 0 /\ last = NoCall

EngIdle == EngineCreated

UiIdle ==
    /\ is_analyzing = FALSE /\ gspawned = 0 /\ grunning = 0
    /\ pspawned = 0 /\ prunning = 0 /\ uclicks = 0

InfoIdle ==
    /\ ilines = <<>> /\ irecs = <<>>
    /\ iresult = [kind |-> "none", moveInfos |-> <<>>]
    /\ icands = [kind |-> "none", list |-> <<>>]
    /\ ipc = "idle"

(***************************************************************************)
(* Candidate parsing: GameAnalyzer._parse_move_candidates.                 *)
(* A raw candidate (one entry of moveInfos) is                             *)
(*   [move: text, visits, scoreLead, order];                               *)
(* a MoveAnalysis is [move, is_pass, win_rate, score_lead, visits, order,  *)
(* pv] with move = <<row, col>>, or <<>> for None.                         *)
(***************************************************************************)
NoMove == <<>>

MoveAnalysis(move, is_pass, win_rate, score_lead, visits, order, pv) ==
    [move |-> move, is_pass |-> is_pass, win_rate |-> win_rate,
     score_lead |-> score_lead, visits |-> visits, order |-> order, pv |-> pv]

\* lines 615-645 for one entry: ok = FALSE when the entry is skipped (continue)
ParseMoveInfo(move_info, board_size) ==
    LET is_pass == LowerStr(move_info.move) = PassText
        c == gtp_to_coords(move_info.move, board_size)
    IN  IF is_pass
        THEN [ok |-> TRUE,
              ma |-> MoveAnalysis(NoMove, TRUE, 0, move_info.scoreLead,
                                  move_info.visits, move_info.order, <<>>)]
        ELSE IF c.kind = "raise"
        THEN [ok |-> FALSE,
              ma |-> MoveAnalysis(NoMove, FALSE, 0, 0, 0, 0, <<>>)]
        ELSE [ok |-> TRUE,
              ma |-> MoveAnalysis(<<c.row, c.col>>, FALSE, 0, move_info.scoreLead,
                                  move_info.visits, move_info.order, <<>>)]

RECURSIVE ParseAll(_, _)
ParseAll(moveInfos, board_size) ==
    IF Len(moveInfos) = 0 THEN <<>>
    ELSE LET front == ParseAll(SubSeq(moveInfos, 1, Len(moveInfos) - 1), board_size)
             p == ParseMoveInfo(moveInfos[Len(moveInfos)], board_size)
         IN  IF p.ok THEN Append(front, p.ma) ELSE front

\* the dictionary key of a candidate: 'pass' or the (row, col) tuple
MoveKey(ma) == IF ma.is_pass THEN <<"pass">> ELSE <<"at", ma.move[1], ma.move[2]>>

\* seen_moves after one more candidate; a dict keeps the position of a key's
\* first insertion (the buggy variant: the last candidate of a key wins)
SeenPutLast(seen, ma) ==
    IF \E j \in 1..Len(seen) : MoveKey(seen[j]) = MoveKey(ma)
    THEN [j \in 1..Len(seen) |->
             IF MoveKey(seen[j]) = MoveKey(ma) THEN ma ELSE seen[j]]
    ELSE Append(seen, ma)

SeenPut(seen, ma) ==
    IF \E j \in 1..Len(seen) : MoveKey(seen[j]) = MoveKey(ma)
    THEN [j \in 1..Len(seen) |->
             IF MoveKey(seen[j]) = MoveKey(ma) /\ ma.visits > seen[j].visits
             THEN ma ELSE seen[j]]
    ELSE Append(seen, ma)

RECURSIVE Dedup(_)
Dedup(mas) ==
    IF Len(mas) = 0 THEN <<>>
    ELSE SeenPut(Dedup(SubSeq(mas, 1, Len(mas) - 1)), mas[Len(mas)])

\* list.sort(key=score_lead, reverse=True) is stable: a candidate goes behind
\* every candidate already placed whose score_lead is >= its own
InsertByScore(sorted, ma) ==
    LET n == Cardinality({j \in 1..Len(sorted) : sorted[j].score_lead >= ma.score_lead})
    IN  SubSeq(sorted, 1, n) \o <<ma>> \o SubSeq(sorted, n + 1, Len(sorted))

\* the buggy variant: ordered by the engine's rank field
InsertByOrder(sorted, ma) ==
    LET n == Cardinality({j \in 1..Len(sorted) : sorted[j].order <= ma.order})
    IN  SubSeq(sorted, 1, n) \o <<ma>> \o SubSeq(sorted, n + 1, Len(sorted))

RECURSIVE SortByOrder(_)
SortByOrder(mas) ==
    IF Len(mas) = 0 THEN <<>>
    ELSE InsertByOrder(SortByOrder(SubSeq(mas, 1, Len(mas) - 1)), mas[Len(mas)])

RECURSIVE SortByScoreLead(_)
SortByScoreLead(mas) ==
    IF Len(mas) = 0 THEN <<>>
    ELSE InsertByScore(SortByScoreLead(SubSeq(mas, 1, Len(mas) - 1)), mas[Len(mas)])

\* analysis_data is [kind |-> "data", moveInfos |-> ...] or a dictionary that
\* has no 'moveInfos' key, [kind |-> "nokey", moveInfos |-> <<>>]
parse_move_candidates(analysis_data, board_size) ==
    IF analysis_data.kind # "data" THEN <<>>
    ELSE SortByScoreLead(Dedup(ParseAll(analysis_data.moveInfos, board_size)))

Data(moveInfos) == [kind |-> "data", moveInfos |-> moveInfos]

NoKeyData == [kind |-> "nokey", moveInfos |-> <<>>]

(***************************************************************************)
(* Inputs of the parser check: every list of at most MaxRaw raw candidates *)
(* over a few move texts ("A1", "a1", "B1", "pass"), visit counts and      *)
(* score leads; the engine's rank runs with the list or against it.        *)
(***************************************************************************)
MaxRaw == 3

ParseBoardSize == 9

TextA1 == <<65, 49>>

TextLowerA1 == <<97, 49>>

TextB1 == <<66, 49>>

RawTexts == {TextA1, TextLowerA1, TextB1, PassText}

RawVisits == {5, 9}

RawScores == {-1, 0, 2}

RawCandidates == [move : RawTexts, visits : RawVisits, scoreLead : RawScores]

Ranked(cands, reversed) ==
    [i \in 1..Len(cands) |->
        [move |-> cands[i].move, visits |-> cands[i].visits,
         scoreLead |-> cands[i].scoreLead,
         order |-> IF reversed THEN Len(cands) - i ELSE i - 1]]

InitParse ==
    /\ CodecIdle /\ VerdictIdle /\ TreeIdle /\ ParIdle /\ SeqIdle /\ EngIdle /\ InfoIdle /\ UiIdle
    /\ raw = <<>>
    /\ rankReversed \in BOOLEAN
    /\ parsed = <<>>
    /\ ppc = "start"

\* the engine reports one more candidate of the response
EngineReports ==
    /\ ppc = "start"
    /\ Len(raw) < MaxRaw
    /\ \E c \in RawCandidates : raw' = Append(raw, c)
    /\ UNCHANGED <<rankReversed, parsed, ppc>>
    /\ UNCHANGED <<codecVars, verdictVars, treeVars, parVars, seqVars, engVars, infoVars, uiVars>>

\* the moveInfos of the response
RawMoveInfos == Ranked(raw, rankReversed)

ParseCandidates ==
    /\ ppc = "start"
    /\ parsed' = parse_move_candidates(Data(RawMoveInfos), ParseBoardSize)
    /\ ppc' = "parsed"
    /\ UNCHANGED <<raw, rankReversed>>
    /\ UNCHANGED <<codecVars, verdictVars, treeVars, parVars, seqVars, engVars, infoVars, uiVars>>

NextParse ==
    \/ EngineReports
    \/ ParseCandidates

SpecParse == InitParse /\ [][NextParse]_vars

\* the raw candidates as the parser reads them, before deduplication
RawParsed == ParseAll(RawMoveInfos, ParseBoardSize)

\* C2: the returned list has at most one candidate per key (coordinate or
\* pass), and the candidate kept for a key is a raw candidate of that key
\* whose visit count is the highest among the raw candidates of that key.
C2_Dedup ==
    ppc = "parsed" =>
        LET rp == RawParsed
        IN  /\ \A i, j \in 1..Len(parsed) :
                  MoveKey(parsed[i]) = MoveKey(parsed[j]) => i = j
            /\ \A i \in 1..Len(parsed) :
                  /\ \E k \in 1..Len(rp) : rp[k] = parsed[i]
                  /\ \A k \in 1..Len(rp) :
                        MoveKey(rp[k]) = MoveKey(parsed[i])
                            => rp[k].visits <= parsed[i].visits
            /\ \A k \in 1..Len(rp) :
                  \E i \in 1..Len(parsed) : MoveKey(parsed[i]) = MoveKey(rp[k])

\* the spec's example shape: key A twice (5 visits, then 9, under two
\* spellings), key B once; A is kept with 9 visits
C2_Witness ==
    /\ ppc = "parsed" /\ Len(raw) = 3 /\ Len(parsed) = 2
    /\ raw[1].move = TextA1 /\ raw[1].visits = 5
    /\ raw[2].move = TextLowerA1 /\ raw[2].visits = 9
    /\ raw[3].move = TextB1
    /\ \E i \in 1..2 : parsed[i].move = <<8, 0>> /\ parsed[i].visits = 9

GameNode(move, color, is_pass) == [move |-> move, color |-> color, is_pass |-> is_pass]

RootNode == GameNode(NoMove, "none", FALSE)

PositionAnalysis(move_number, played_move, played_move_analysis, top_moves,
                 is_error, point_loss) ==
    [move_number |-> move_number, played_move |-> played_move,
     played_move_analysis |-> played_move_analysis, top_moves |-> top_moves,
     is_error |-> is_error, point_loss |-> point_loss]

Abs(x) == IF x < 0 THEN 0 - x ELSE x

KeepTop == 5

TopFive(top_moves) ==
    SubSeq(top_moves, 1, IF Len(top_moves) < KeepTop THEN Len(top_moves) ELSE KeepTop)

\* error_threshold of GameAnalyzer.__init__: 3.0 points, in half points
ErrorThreshold == 6

\* the search loop of lines 420-428 and 579-585: the first candidate that
\* matches the node, <<>> when there is none
FindPlayed(node, top_moves) ==
    LET hits == {i \in 1..Len(top_moves) :
                    \/ node.is_pass /\ top_moves[i].is_pass
                    \/ node.move = top_moves[i].move}
    IN  IF hits = {} THEN <<>>
        ELSE <<top_moves[CHOOSE i \in hits : \A j \in hits : i <= j]>>

\* lines 434-435: the condition under which the played move is analysed by
\* a query of its own
NeedsOpponentQuery(node, top_moves, has_engine, has_main_line) ==
    /\ FindPlayed(node, top_moves) = <<>>
    /\ has_engine
    /\ node.move # NoMove
    /\ ~node.is_pass
    /\ has_main_line

\* lines 464-486: the played move's analysis out of the answer to that query;
\* opponent_analysis is Data(..), NoKeyData, NoAnswer (None) or Raised
NoAnswer == [kind |-> "none", moveInfos |-> <<>>]

Raised == [kind |-> "raise", moveInfos |-> <<>>]

FromOpponent(node, opponent_analysis, board_size) ==
    IF opponent_analysis.kind # "data" THEN <<>>
    ELSE LET opponent_moves == parse_move_candidates(opponent_analysis, board_size)
         IN  IF Len(opponent_moves) = 0 THEN <<>>
             ELSE <<MoveAnalysis(node.move, FALSE, 50, 0 - opponent_moves[1].score_lead,
                                 0, 999, opponent_moves[1].pv)>>

\* lines 494-506 without abs() (the buggy variant)
ClassifySigned(played, top_moves, error_threshold) ==
    IF played # <<>> /\ Len(top_moves) > 0
    THEN LET point_loss == top_moves[1].score_lead - played[1].score_lead
         IN  [point_loss |-> point_loss, is_error |-> point_loss >= error_threshold]
    ELSE [point_loss |-> 0, is_error |-> FALSE]

\* lines 494-506, with >= replaced by > (the buggy variant)
ClassifyStrict(played, top_moves, error_threshold) ==
    IF played # <<>> /\ Len(top_moves) > 0
    THEN LET point_loss == Abs(top_moves[1].score_lead - played[1].score_lead)
         IN  [point_loss |-> point_loss, is_error |-> point_loss > error_threshold]
    ELSE [point_loss |-> 0, is_error |-> FALSE]

\* lines 494-506
Classify(played, top_moves, error_threshold) ==
    IF played # <<>> /\ Len(top_moves) > 0
    THEN LET point_loss == Abs(top_moves[1].score_lead - played[1].score_lead)
         IN  [point_loss |-> point_loss, is_error |-> point_loss >= error_threshold]
    ELSE [point_loss |-> 0, is_error |-> FALSE]

\* _create_position_analysis; opponent_analysis is what engine.analyze_position
\* answers to the query of lines 456-462, should that query be made
create_position_analysis(move_number, node, analysis_data, board_size, has_engine,
                         has_main_line, opponent_analysis, error_threshold) ==
    LET top_moves == parse_move_candidates(analysis_data, board_size)
        played == IF NeedsOpponentQuery(node, top_moves, has_engine, has_main_line)
                  THEN FromOpponent(node, opponent_analysis, board_size)
                  ELSE FindPlayed(node, top_moves)
        c == Classify(played, top_moves, error_threshold)
    IN  PositionAnalysis(move_number, node.move, played, TopFive(top_moves),
                         c.is_error, c.point_loss)

\* GameAnalyzer.analyze_position after its engine query answered analysis_data
\* (lines 568-597); move_number < Len(main_line), main_line[k + 1] is node k
analyze_position_single(main_line, move_number, analysis_data, board_size) ==
    LET top_moves == parse_move_candidates(analysis_data, board_size)
        node == main_line[move_number + 1]
        played == IF move_number + 1 < Len(main_line)
                  THEN FindPlayed(main_line[move_number + 2], top_moves)
                  ELSE <<>>
    IN  PositionAnalysis(move_number, node.move, played, TopFive(top_moves), FALSE, 0)

(***************************************************************************)
(* Inputs of the verdict check: a played node, the answer to the first     *)
(* query (up to MaxTop raw candidates), and the answer to the query of the *)
(* played move (up to MaxOpp raw candidates, no answer, or an exception).  *)
(***************************************************************************)
MaxTop == 2

MaxOpp == 1

PlayedA1 == GameNode(<<8, 0>>, "B", FALSE)

PlayedPass == GameNode(NoMove, "W", TRUE)

PlayedNodes == {PlayedA1, PlayedPass}

VerdictScores == {-2, 2, 3, 8}

VerdictCandidates ==
    [move : {TextA1, TextB1, PassText}, visits : {5}, scoreLead : VerdictScores,
     order : {0}]

OpponentCandidates ==
    [move : {TextA1, PassText}, visits : {5}, scoreLead : VerdictScores, order : {0}]

OpponentAnswers ==
    {NoAnswer, Raised, NoKeyData}
        \cup UNION {{Data(l) : l \in [1..n -> OpponentCandidates]} : n \in 0..MaxOpp}

InitVerdict ==
    /\ CodecIdle /\ ParseIdle /\ TreeIdle /\ ParIdle /\ SeqIdle /\ EngIdle /\ InfoIdle /\ UiIdle
    /\ vnode \in PlayedNodes
    /\ vdata \in {Data(<<>>), NoKeyData}
    /\ vengine = FALSE
    /\ vopp = NoAnswer
    /\ vasked = FALSE
    /\ verdict = <<>>
    /\ vpc = "start"

\* the engine reports one more candidate in the answer to the first query
EngineReportsTop ==
    /\ vpc = "start"
    /\ vdata.kind = "data"
    /\ Len(vdata.moveInfos) < MaxTop
    /\ \E c \in VerdictCandidates : vdata' = Data(Append(vdata.moveInfos, c))
    /\ UNCHANGED <<vnode, vengine, vopp, vasked, verdict, vpc>>
    /\ UNCHANGED <<codecVars, parseVars, treeVars, parVars, seqVars, engVars, infoVars, uiVars>>

\* _create_position_analysis as _analyze_sequential calls it (engine and
\* main_line given) and as _analyze_parallel calls it (engine None)
CreatePositionAnalysis ==
    /\ vpc = "start"
    /\ \E has_engine \in BOOLEAN, opp \in OpponentAnswers :
          LET asked == NeedsOpponentQuery(vnode,
                           parse_move_candidates(vdata, ParseBoardSize),
                           has_engine, has_engine)
          IN  /\ asked \/ opp = NoAnswer
              /\ vengine' = has_engine
              /\ vasked' = asked
              /\ vopp' = opp
              /\ verdict' = <<create_position_analysis(1, vnode, vdata, ParseBoardSize,
                                  has_engine, has_engine, opp, ErrorThreshold)>>
    /\ vpc' = "batch"
    /\ UNCHANGED <<vnode, vdata>>
    /\ UNCHANGED <<codecVars, parseVars, treeVars, parVars, seqVars, engVars, infoVars, uiVars>>

\* GameAnalyzer.analyze_position on node 1 of a main line root, vnode and
\* possibly one more node
AnalyzePositionSingle ==
    /\ vpc = "start"
    /\ \E tail \in {<<>>} \cup {<<n>> : n \in PlayedNodes} :
          verdict' = <<analyze_position_single(<<RootNode, vnode>> \o tail, 1, vdata,
                                               ParseBoardSize)>>
    /\ vpc' = "single"
    /\ UNCHANGED <<vnode, vdata, vengine, vopp, vasked>>
    /\ UNCHANGED <<codecVars, parseVars, treeVars, parVars, seqVars, engVars, infoVars, uiVars>>

NextVerdict ==
    \/ EngineReportsTop
    \/ CreatePositionAnalysis
    \/ AnalyzePositionSingle

SpecVerdict == InitVerdict /\ [][NextVerdict]_vars

\* the candidates of the first query, and the played move among them
VTop == parse_move_candidates(vdata, ParseBoardSize)

VFound == FindPlayed(vnode, VTop)

\* C4: in a verdict of _create_position_analysis with the played move's
\* evaluation available and a non-empty candidate list, point_loss is
\* |best score_lead - played score_lead| and is_error is point_loss >=
\* error_threshold.
C4_ErrorClassification ==
    (vpc = "batch" /\ verdict[1].played_move_analysis # <<>> /\ Len(VTop) > 0) =>
        /\ verdict[1].point_loss =
              Abs(VTop[1].score_lead - verdict[1].played_move_analysis[1].score_lead)
        /\ verdict[1].is_error = (verdict[1].point_loss >= ErrorThreshold)

\* the boundary: best 4.0, played 1.0, loss 3.0 = threshold, an error
C4_Witness ==
    /\ vpc = "batch" /\ verdict[1].played_move_analysis # <<>> /\ Len(VTop) > 0
    /\ VTop[1].score_lead = 8
    /\ verdict[1].played_move_analysis[1].score_lead = 2
    /\ verdict[1].point_loss = ErrorThreshold
    /\ verdict[1].is_error

\* C5: every verdict has point_loss >= 0, and a verdict without
\* played_move_analysis has point_loss 0 and is_error false.
C5_NoPlayedNoLoss ==
    vpc \in {"batch", "single"} =>
        /\ verdict[1].point_loss >= 0
        /\ verdict[1].played_move_analysis = <<>> =>
              (verdict[1].point_loss = 0 /\ ~verdict[1].is_error)

\* candidates were returned, the played move is not among them and the query
\* of the played move gave nothing
C5_Witness ==
    /\ vpc = "batch" /\ Len(VTop) > 0 /\ vasked /\ vopp = NoAnswer
    /\ verdict[1].played_move_analysis = <<>>
    /\ verdict[1].point_loss = 0 /\ ~verdict[1].is_error

\* the answer to the follow-up query holds at least one usable candidate
VOppMoves == parse_move_candidates(vopp, ParseBoardSize)

\* C6 as claimed, for the sequential orchestration (engine at hand) and an
\* engine that answers every follow-up query with candidates: whenever the
\* played move is absent from the (non-empty) candidates of the first query, a follow-up
\* query is made and the verdict has a played_move_analysis whose score_lead
\* is the negated best score_lead of that query.
C6_FallbackAlways ==
    (/\ vpc = "batch" /\ vengine /\ Len(VTop) > 0 /\ VFound = <<>>
     /\ (vasked => (vopp.kind = "data" /\ Len(VOppMoves) > 0))) =>
        /\ vasked
        /\ verdict[1].played_move_analysis # <<>>
        /\ verdict[1].played_move_analysis[1].score_lead = 0 - VOppMoves[1].score_lead

(***************************************************************************)
(* The move tree (game/game_tree.py).  A node of the arena is a GameNode   *)
(* with its parent (0 for None) and the list of its children.              *)
(***************************************************************************)
TreeNode(move, color, is_pass, parent) ==
    [move |-> move, color |-> color, is_pass |-> is_pass, parent |-> parent,
     children |-> <<>>]

\* get_move_number started at the parent (the buggy variant)
RECURSIVE get_move_number(_, _)
get_move_number_above(tree, n) ==
    IF tree[n].parent = 0 THEN 0 ELSE get_move_number(tree, tree[n].parent)

get_move_number(tree, n) ==
    IF tree[n].parent = 0 THEN 0
    ELSE (IF tree[n].move # NoMove \/ tree[n].is_pass THEN 1 ELSE 0)
             + get_move_number(tree, tree[n].parent)

\* GameNode.add_child followed by the move of the cursor
WithChild(tree, parent, node) ==
    [i \in 1..(Len(tree) + 1) |->
        IF i = Len(tree) + 1 THEN node
        ELSE IF i = parent
        THEN [tree[i] EXCEPT !.children = Append(@, Len(tree) + 1)]
        ELSE tree[i]]

MaxNodes == 4

TreeCoords == {<<0, 0>>, <<8, 8>>}

TreeColors == {"B", "W"}

\* GameTree(): the root alone; SGFParser.parse_string of "(;GM[1])": the
\* root and a first node that carries no move; the cursor is at the root
InitTree ==
    /\ CodecIdle /\ ParseIdle /\ VerdictIdle /\ ParIdle /\ SeqIdle /\ EngIdle /\ InfoIdle /\ UiIdle
    /\ \/ /\ nodes = <<TreeNode(NoMove, "none", FALSE, 0)>>
          /\ seqAdds = 0
          /\ treeop = "GameTree"
       \/ /\ nodes = WithChild(<<TreeNode(NoMove, "none", FALSE, 0)>>, 1,
                               TreeNode(NoMove, "none", FALSE, 1))
          /\ seqAdds = -1
          /\ treeop = "parse_string"
    /\ current = 1

AddMove ==
    /\ Len(nodes) < MaxNodes
    /\ \E rc \in TreeCoords, color \in TreeColors :
          nodes' = WithChild(nodes, current, TreeNode(rc, color, FALSE, current))
    /\ current' = Len(nodes) + 1
    /\ seqAdds' = IF seqAdds >= 0 THEN seqAdds + 1 ELSE seqAdds
    /\ treeop' = "add_move"
    /\ UNCHANGED <<codecVars, parseVars, verdictVars, parVars, seqVars, engVars, infoVars, uiVars>>

AddPass ==
    /\ Len(nodes) < MaxNodes
    /\ \E color \in TreeColors :
          nodes' = WithChild(nodes, current, TreeNode(NoMove, color, TRUE, current))
    /\ current' = Len(nodes) + 1
    /\ seqAdds' = IF seqAdds >= 0 THEN seqAdds + 1 ELSE seqAdds
    /\ treeop' = "add_pass"
    /\ UNCHANGED <<codecVars, parseVars, verdictVars, parVars, seqVars, engVars, infoVars, uiVars>>

GoToNext ==
    /\ \E variation \in 0..(MaxNodes - 1) :
          /\ variation < Len(nodes[current].children)
          /\ current' = nodes[current].children[variation + 1]
    /\ seqAdds' = -1
    /\ UNCHANGED nodes
    /\ treeop' = "go_to_next"
    /\ UNCHANGED <<codecVars, parseVars, verdictVars, parVars, seqVars, engVars, infoVars, uiVars>>

GoToPrevious ==
    /\ nodes[current].parent # 0
    /\ current' = nodes[current].parent
    /\ seqAdds' = -1
    /\ UNCHANGED nodes
    /\ treeop' = "go_to_previous"
    /\ UNCHANGED <<codecVars, parseVars, verdictVars, parVars, seqVars, engVars, infoVars, uiVars>>

GoToRoot ==
    /\ current' = 1
    /\ seqAdds' = -1
    /\ UNCHANGED nodes
    /\ treeop' = "go_to_root"
    /\ UNCHANGED <<codecVars, parseVars, verdictVars, parVars, seqVars, engVars, infoVars, uiVars>>

\* go_to_move_number, lines 157-174: from the root along children[0] while
\* the move number is below move_num; where the cursor stops and the result
RECURSIVE go_to_move_number_from(_, _, _)
go_to_move_number_from(tree, n, move_num) ==
    IF get_move_number(tree, n) < move_num
    THEN IF Len(tree[n].children) = 0
         THEN [current |-> n, ok |-> FALSE]
         ELSE go_to_move_number_from(tree, tree[n].children[1], move_num)
    ELSE [current |-> n, ok |-> get_move_number(tree, n) = move_num]

go_to_move_number(tree, move_num) == go_to_move_number_from(tree, 1, move_num)

GoToMoveNumber ==
    /\ \E move_num \in 0..MaxNodes :
          current' = go_to_move_number(nodes, move_num).current
    /\ seqAdds' = -1
    /\ UNCHANGED nodes
    /\ treeop' = "go_to_move_number"
    /\ UNCHANGED <<codecVars, parseVars, verdictVars, parVars, seqVars, engVars, infoVars, uiVars>>

\* get_main_line, lines 214-219: the root, then children[0] while there is one
RECURSIVE main_line_from(_, _)
main_line_from(tree, n) ==
    IF Len(tree[n].children) = 0 THEN <<n>>
    ELSE <<n>> \o main_line_from(tree, tree[n].children[1])

get_main_line(tree) == main_line_from(tree, 1)

\* the children of the root emptied instead of those of the cursor
clear_from_root(tree, cursor) == [tree EXCEPT ![1].children = <<>>]

\* line 244: self.current.children = []
clear_from_current(tree, cursor) == [tree EXCEPT ![cursor].children = <<>>]

ClearFromCurrent ==
    /\ nodes' = clear_from_current(nodes, current)
    /\ seqAdds' = -1
    /\ UNCHANGED current
    /\ treeop' = "clear_from_current"
    /\ UNCHANGED <<codecVars, parseVars, verdictVars, parVars, seqVars, engVars, infoVars, uiVars>>

NextTree ==
    \/ AddMove
    \/ AddPass
    \/ GoToNext
    \/ GoToPrevious
    \/ GoToRoot
    \/ GoToMoveNumber
    \/ ClearFromCurrent

SpecTree == InitTree /\ [][NextTree]_vars

\* the nodes from n up to the root, n and the root included
RECURSIVE PathToRoot(_, _)
PathToRoot(tree, n) ==
    IF tree[n].parent = 0 THEN {n} ELSE {n} \cup PathToRoot(tree, tree[n].parent)

CarriesMove(tree, n) == tree[n].move # NoMove \/ tree[n].is_pass

\* C10: after N add_move / add_pass calls and nothing else, the k-th added
\* node has move number k (the N-th is the cursor) and the root has 0; for
\* every node, the move number is the number of nodes on its path to the
\* root, itself included, that carry a move or the pass flag.
C10_MoveNumber ==
    /\ get_move_number(nodes, 1) = 0
    /\ seqAdds >= 0 =>
          /\ Len(nodes) = seqAdds + 1
          /\ current = seqAdds + 1
          /\ \A k \in 0..seqAdds : get_move_number(nodes, k + 1) = k
    /\ \A n \in 1..Len(nodes) :
          get_move_number(nodes, n)
              = Cardinality({a \in PathToRoot(nodes, n) : CarriesMove(nodes, a)})

\* three calls in a row, a pass among them
C10_Witness ==
    /\ seqAdds = 3
    /\ nodes[3].is_pass
    /\ get_move_number(nodes, current) = 3
    /\ get_move_number(nodes, 1) = 0

(***************************************************************************)
(* Orchestration.  game[k] is main_line[k - 1]; task t analyses the        *)
(* position before the move of game[t], i.e. move_index = t - 1.           *)
(*                                                                         *)
(* The engine process is a deterministic stub: its answer to an analysis   *)
(* depends on the moves on its board alone, stub[n] for the first n moves  *)
(* of the game, in either dialect.                                         *)
(***************************************************************************)
\* the node test without the pass
IsMoveNodeNoPass(node) == node.move # NoMove

IsMoveNode(node) == node.move # NoMove \/ node.is_pass

\* the GTP text of a node's move (lines 204-208, 309-318)
NodeText(node, board_size) ==
    IF node.is_pass THEN PassText
    ELSE coords_to_gtp(node.move[1], node.move[2], board_size)

\* the move list without the passes
RECURSIVE MovesGtpNoPass(_, _, _)
MovesGtpNoPass(main_line, i, board_size) ==
    IF i = 0 THEN <<>>
    ELSE LET front == MovesGtpNoPass(main_line, i - 1, board_size)
         IN  IF main_line[i].move # NoMove /\ ~main_line[i].is_pass
             THEN Append(front, coords_to_gtp(main_line[i].move[1], main_line[i].move[2],
                                              board_size))
             ELSE front

\* moves_gtp of lines 200-208: the texts of the moves of main_line[0 .. i-1]
RECURSIVE MovesGtp(_, _, _)
MovesGtp(main_line, i, board_size) ==
    IF i = 0 THEN <<>>
    ELSE LET front == MovesGtp(main_line, i - 1, board_size)
         IN  IF IsMoveNode(main_line[i])
             THEN Append(front, NodeText(main_line[i], board_size))
             ELSE front

\* the stub's answer to an analysis of the position reached by `moves`
StubAnswer(answers, main_line, moves, board_size) ==
    IF /\ Len(moves) + 1 \in DOMAIN answers
       /\ moves = SubSeq(MovesGtp(main_line, Len(main_line), board_size), 1, Len(moves))
    THEN answers[Len(moves) + 1]
    ELSE NoAnswer

\* _analyze_sequential, lines 191-244: the results after nodes main_line[0 .. i-1]
RECURSIVE AnalyzeSequential(_, _, _, _, _)
AnalyzeSequential(main_line, i, answers, board_size, error_threshold) ==
    IF i = 0 THEN <<>>
    ELSE LET results == AnalyzeSequential(main_line, i - 1, answers, board_size,
                                          error_threshold)
             node == main_line[i]
             moves_gtp == MovesGtp(main_line, i - 1, board_size)
             analysis_data == StubAnswer(answers, main_line, moves_gtp, board_size)
             opponent_analysis ==
                 IF node.is_pass \/ node.move = NoMove THEN NoAnswer
                 ELSE StubAnswer(answers, main_line,
                                 Append(moves_gtp, NodeText(node, board_size)), board_size)
         IN  IF ~IsMoveNode(node) THEN results
             ELSE IF analysis_data.kind = "none" THEN results
             ELSE Append(results,
                         create_position_analysis(i - 1, node, analysis_data, board_size,
                             TRUE, TRUE, opponent_analysis, error_threshold))

\* every task on the primary engine
EngineOfPrimary(t) == 1

\* line 365: engine_idx = i % actual_threads (tasks and engines count from 1)
EngineOf(t) == ((t - 1) % numEngines) + 1

\* line 47: num_threads = max(1, min(8, num_threads))
ClampThreads(num_threads) ==
    LET low == IF num_threads < 8 THEN num_threads ELSE 8
    IN  IF low > 1 THEN low ELSE 1

\* values of the num_threads argument
ThreadSettings == {0, 1, 2, 9}

Tasks == 1..Len(game)

Running == {t \in Tasks : tstate[t] \in {"wait", "replay", "analysed", "counted"}}

OtherColor(color) == IF color = "B" THEN "W" ELSE "B"

\* line 310 / 317: the colour named in the play command
PlayColor(node) == IF node.color = "B" THEN "B" ELSE "W"

\* lines 312-315, 320-323 with the failure of play_move ignored (the buggy variant)
ReplayFailedNever(success) == FALSE

\* lines 312-315, 320-323: a failed play_move fails the replay
ReplayFailed(success) == ~success

\* the main lines analysed: a three-move game with a pass, and a parsed file
\* whose first node carries no move
GameAB == <<RootNode, GameNode(<<8, 0>>, "B", FALSE), GameNode(<<8, 1>>, "W", FALSE),
            GameNode(NoMove, "B", TRUE)>>

GameParsed == <<RootNode, RootNode, GameNode(<<8, 0>>, "B", FALSE),
                GameNode(NoMove, "W", TRUE)>>

Games == {GameAB, GameParsed}

\* the stub's answers: none within the timeout, or one of two candidate lists
AnswerA1 == Data(<<[move |-> TextA1, visits |-> 9, scoreLead |-> 8, order |-> 0]>>)

AnswerB1 == Data(<<[move |-> TextB1, visits |-> 9, scoreLead |-> 2, order |-> 0],
                   [move |-> PassText, visits |-> 5, scoreLead |-> -8, order |-> 1]>>)

StubAnswers == {NoAnswer, AnswerA1, AnswerB1}

NumMoves(main_line) == Cardinality({k \in 1..Len(main_line) : IsMoveNode(main_line[k])})

\* the engines the pool keeps, whatever start() gave
RECURSIVE create_engine_pool_all(_, _)
create_engine_pool_all(results, n) ==
    IF n = 0 THEN <<>> ELSE Append(create_engine_pool_all(results, n - 1), n + 1)

\* _create_engine_pool, lines 64-74, over the first n engines made: an engine
\* joins the pool when start() returned True, not when it returned False or
\* when making or starting it raised
RECURSIVE create_engine_pool(_, _)
create_engine_pool(results, n) ==
    IF n = 0 THEN <<>>
    ELSE IF results[n] = "ok" THEN Append(create_engine_pool(results, n - 1), n + 1)
    ELSE create_engine_pool(results, n - 1)

\* every engine of the pool starts
AllStart(n) == [i \in 1..n |-> "ok"]

\* lines 272-286: the state of _analyze_parallel when the tasks are submitted
ParStart(main_line, answers, mode, results) ==
    /\ CodecIdle /\ ParseIdle /\ VerdictIdle /\ TreeIdle /\ SeqIdle /\ EngIdle /\ InfoIdle /\ UiIdle
    /\ game = main_line
    /\ stub = answers
    /\ rejectMode = mode
    /\ rejectUsed = FALSE
    /\ pstart = results
    /\ pool = create_engine_pool(results, Len(results))
    /\ all_engines = <<1>> \o pool
    /\ pstopped = {}
    /\ numEngines = Len(all_engines)
    /\ elock = [e \in 1..numEngines |-> 0]
    /\ eboard = [e \in 1..numEngines |-> <<>>]
    /\ enext = [e \in 1..numEngines |-> "B"]
    /\ tstate = [t \in 1..Len(game) |-> "queued"]
    /\ tj = [t \in 1..Len(game) |-> 0]
    /\ tdata = [t \in 1..Len(game) |-> NoAnswer]
    /\ tres = [t \in 1..Len(game) |-> <<>>]
    /\ tasked = [t \in 1..Len(game) |-> FALSE]
    /\ presults = [t \in 1..Len(game) |-> <<>>]
    /\ completed = 0
    /\ returned = <<>>
    /\ mainpc = "running"
    /\ corder = <<>>
    /\ plock = 0 /\ preported = <<>>

InitPar ==
    \E main_line \in Games :
      \E answers \in [1..(NumMoves(main_line) + 1) -> StubAnswers] :
        \E mode \in {"never", "once", "always"}, setting \in ThreadSettings :
            ParStart(main_line, answers, mode, AllStart(ClampThreads(setting) - 1))

\* the counter touched without the lock
ProgressLockFreeAlways(lock) == TRUE

\* with lock, line 347
ProgressLockFree(lock) == lock = 0

parFixed == <<game, stub, rejectMode, numEngines, pstart, all_engines>>

\* a pool thread takes the next submitted task (lines 288-297); the task of
\* a node without a move returns None at once
StartTask(t) ==
    /\ mainpc = "running"
    /\ tstate[t] = "queued"
    /\ \A u \in 1..(t - 1) : tstate[u] # "queued"
    /\ Cardinality(Running) < numEngines
    /\ tstate' = [tstate EXCEPT ![t] = IF IsMoveNode(game[t]) THEN "wait" ELSE "finished"]
    /\ UNCHANGED <<rejectUsed, elock, eboard, enext, tj, tdata, tres, tasked,
                   presults, completed, returned, mainpc>>
    /\ UNCHANGED <<parFixed, corder>>
    /\ UNCHANGED progVars
    /\ UNCHANGED poolVars
    /\ UNCHANGED <<codecVars, parseVars, verdictVars, treeVars, seqVars, engVars, infoVars, uiVars>>

\* a lock that lets every thread in
LockFreeAlways(locks, e) == TRUE

\* line 300: engine_lock can be taken
LockFree(locks, e) == locks[e] = 0

\* lines 300-303: the engine's lock, set_board_size, clear_board
Acquire(t) ==
    /\ tstate[t] = "wait"
    /\ LockFree(elock, EngineOf(t))
    /\ elock' = [elock EXCEPT ![EngineOf(t)] = t]
    /\ eboard' = [eboard EXCEPT ![EngineOf(t)] = <<>>]
    /\ enext' = [enext EXCEPT ![EngineOf(t)] = "B"]
    /\ tj' = [tj EXCEPT ![t] = 1]
    /\ tstate' = [tstate EXCEPT ![t] = "replay"]
    /\ UNCHANGED <<rejectUsed, tdata, tres, tasked, presults, completed, returned, mainpc>>
    /\ UNCHANGED <<parFixed, corder>>
    /\ UNCHANGED progVars
    /\ UNCHANGED poolVars
    /\ UNCHANGED <<codecVars, parseVars, verdictVars, treeVars, seqVars, engVars, infoVars, uiVars>>

\* lines 307-328: one turn of the replay loop, on main_line[j] = game[j + 1]
\* (tj is j + 1); the stub accepts the play command or rejects it
ReplayStep(t) ==
    /\ tstate[t] = "replay"
    /\ tj[t] < t
    /\ LET e == EngineOf(t)
           node == game[tj[t]]
       IN  IF ~IsMoveNode(node)
           THEN /\ tj' = [tj EXCEPT ![t] = @ + 1]
                /\ UNCHANGED <<rejectUsed, elock, eboard, enext, tstate>>
           ELSE \E success \in BOOLEAN :
                   /\ rejectMode = "never" => success
                   /\ rejectMode = "always" => ~success
                   /\ rejectMode = "once" => (success \/ ~rejectUsed)
                   /\ rejectUsed' = (rejectUsed \/ ~success)
                   /\ IF success
                      THEN /\ eboard' = [eboard EXCEPT ![e] =
                                            Append(@, NodeText(node, ParseBoardSize))]
                           /\ enext' = [enext EXCEPT ![e] = OtherColor(PlayColor(node))]
                      ELSE UNCHANGED <<eboard, enext>>
                   /\ IF ReplayFailed(success)
                      THEN /\ elock' = [elock EXCEPT ![e] = 0]
                           /\ tstate' = [tstate EXCEPT ![t] = "finished"]
                           /\ UNCHANGED tj
                      ELSE /\ tj' = [tj EXCEPT ![t] = @ + 1]
                           /\ UNCHANGED <<elock, tstate>>
    /\ UNCHANGED <<tdata, tres, tasked, presults, completed, returned, mainpc>>
    /\ UNCHANGED <<parFixed, corder>>
    /\ UNCHANGED progVars
    /\ UNCHANGED poolVars
    /\ UNCHANGED <<codecVars, parseVars, verdictVars, treeVars, seqVars, engVars, infoVars, uiVars>>

\* lines 330-338: engine.analyze_position(max_visits) on the board as replayed,
\* then the lock is released; None ends the task
AnalyzeBoard(t) ==
    /\ tstate[t] = "replay"
    /\ tj[t] = t
    /\ LET e == EngineOf(t)
           analysis_data == StubAnswer(stub, game, eboard[e], ParseBoardSize)
       IN  /\ tasked' = [tasked EXCEPT ![t] = TRUE]
           /\ tdata' = [tdata EXCEPT ![t] = analysis_data]
           /\ elock' = [elock EXCEPT ![e] = 0]
           /\ tstate' = [tstate EXCEPT ![t] =
                            IF analysis_data.kind = "none" THEN "finished" ELSE "analysed"]
    /\ UNCHANGED <<rejectUsed, eboard, enext, tj, tres, presults, completed, returned, mainpc>>
    /\ UNCHANGED <<parFixed, corder>>
    /\ UNCHANGED progVars
    /\ UNCHANGED poolVars
    /\ UNCHANGED <<codecVars, parseVars, verdictVars, treeVars, seqVars, engVars, infoVars, uiVars>>

\* lines 340-352: the verdict (no engine is passed), then the progress count
CompleteTask(t) ==
    /\ tstate[t] = "analysed"
    /\ ProgressLockFree(plock)
    /\ plock' = t
    /\ tres' = [tres EXCEPT ![t] =
                   <<create_position_analysis(t - 1, game[t], tdata[t], ParseBoardSize,
                                              FALSE, FALSE, NoAnswer, ErrorThreshold)>>]
    /\ completed' = completed + 1
    /\ tstate' = [tstate EXCEPT ![t] = "counted"]
    /\ UNCHANGED <<rejectUsed, elock, eboard, enext, tj, tdata, tasked, presults,
                   returned, mainpc, preported>>
    /\ UNCHANGED <<parFixed, corder>>
    /\ UNCHANGED poolVars
    /\ UNCHANGED <<codecVars, parseVars, verdictVars, treeVars, seqVars, engVars, infoVars, uiVars>>

\* lines 350-354: still under the lock, the callback gets the counter and the
\* length of the main line; the lock is released and the task returns
ReportProgress(t) ==
    /\ tstate[t] = "counted"
    /\ preported' = Append(preported, <<completed, Len(game)>>)
    /\ plock' = IF plock = t THEN 0 ELSE plock
    /\ tstate' = [tstate EXCEPT ![t] = "finished"]
    /\ UNCHANGED <<rejectUsed, elock, eboard, enext, tj, tdata, tres, tasked, presults,
                   completed, returned, mainpc>>
    /\ UNCHANGED <<parFixed, corder>>
    /\ UNCHANGED poolVars
    /\ UNCHANGED <<codecVars, parseVars, verdictVars, treeVars, seqVars, engVars, infoVars, uiVars>>

\* results kept in the order of completion (a list appended to)
StoreResultAppended(results, move_idx, result, order) ==
    [results EXCEPT ![Len(order) + 1] = result]

\* lines 375-379: results[move_idx] = result, None left in place otherwise
StoreResult(results, move_idx, result, order) ==
    [results EXCEPT ![move_idx] = result]

\* lines 373-381: the main thread takes a completed future
Collect(t) ==
    /\ mainpc = "running"
    /\ tstate[t] = "finished"
    /\ presults' = StoreResult(presults, t, tres[t], corder)
    /\ corder' = Append(corder, t)
    /\ tstate' = [tstate EXCEPT ![t] = "collected"]
    /\ UNCHANGED <<rejectUsed, elock, eboard, enext, tj, tdata, tres, tasked,
                   completed, returned, mainpc>>
    /\ UNCHANGED parFixed
    /\ UNCHANGED progVars
    /\ UNCHANGED poolVars
    /\ UNCHANGED <<codecVars, parseVars, verdictVars, treeVars, seqVars, engVars, infoVars, uiVars>>

\* results without the None entries, in index order
RECURSIVE Filtered(_, _)
Filtered(results, n) ==
    IF n = 0 THEN <<>> ELSE Filtered(results, n - 1) \o results[n]

\* a cleanup that ends at the first stop() that raises
CleanupStopsUntilRaise(engines, raising) ==
    {engines[k] : k \in {n \in 1..Len(engines) :
                            \A m \in 1..(n - 1) : engines[m] \notin raising}}

\* _cleanup_engine_pool, lines 78-83: the engines on which stop() is called,
\* when stop() raises on those of `raising`
CleanupStops(engines, raising) == {engines[k] : k \in 1..Len(engines)}

\* the engines whose stop() raises during one cleanup: none, or any one
StopRaises(engines) == {{}} \cup {{engines[k]} : k \in 1..Len(engines)}

\* lines 383-387: the pool is cleaned up and the results returned
ReturnResults ==
    /\ mainpc = "running"
    /\ \A t \in Tasks : tstate[t] = "collected"
    /\ \E raising \in StopRaises(pool) :
          pstopped' = pstopped \cup CleanupStops(pool, raising)
    /\ pool' = <<>>
    /\ returned' = Filtered(presults, Len(game))
    /\ mainpc' = "done"
    /\ UNCHANGED <<rejectUsed, elock, eboard, enext, tstate, tj, tdata, tres, tasked,
                   presults, completed>>
    /\ UNCHANGED <<parFixed, corder>>
    /\ UNCHANGED progVars
    /\ UNCHANGED <<codecVars, parseVars, verdictVars, treeVars, seqVars, engVars, infoVars, uiVars>>

NextPar ==
    \/ \E t \in Tasks : StartTask(t)
    \/ \E t \in Tasks : Acquire(t)
    \/ \E t \in Tasks : ReplayStep(t)
    \/ \E t \in Tasks : AnalyzeBoard(t)
    \/ \E t \in Tasks : CompleteTask(t)
    \/ \E t \in Tasks : ReportProgress(t)
    \/ \E t \in Tasks : Collect(t)
    \/ ReturnResults

SpecPar == InitPar /\ [][NextPar]_vars

\* the answer the stub gives for the position before the move of game[t]
PositionAnswer(t) ==
    StubAnswer(stub, game, MovesGtp(game, t - 1, ParseBoardSize), ParseBoardSize)

\* the replay loop of task t issues at least one play command
NeedsReplay(t) == \E k \in 1..(t - 1) : IsMoveNode(game[k])

\* some step of the batch can be taken: a task can start, take its engine's
\* lock, go on under it, take the progress lock, finish or be collected, or
\* the batch can return
CanProceed ==
    \/ \E t \in Tasks : /\ tstate[t] = "queued"
                        /\ \A u \in 1..(t - 1) : tstate[u] # "queued"
                        /\ Cardinality(Running) < numEngines
    \/ \E t \in Tasks : tstate[t] = "wait" /\ elock[EngineOf(t)] = 0
    \/ \E t \in Tasks : tstate[t] \in {"replay", "counted", "finished"}
    \/ \E t \in Tasks : tstate[t] = "analysed" /\ plock = 0
    \/ \A t \in Tasks : tstate[t] = "collected"

\* C7: with a deterministic stub engine that accepts every command, the
\* batch over two or more engines returns the very list of verdicts the
\* one-engine sequential pass returns, whatever the interleaving of workers.
C7_ParallelEqualsSequential ==
    (mainpc = "done" /\ rejectMode = "never" /\ numEngines >= 2) =>
        returned = AnalyzeSequential(game, Len(game), stub, ParseBoardSize, ErrorThreshold)

\* C8: when the engine rejects one play command of a replay and accepts
\* every later one, the worker's single retry of the replay succeeds, so
\* every position the engine answers still has its verdict.
C8_RetryYieldsVerdict ==
    (mainpc = "done" /\ rejectMode = "once") =>
        \A t \in Tasks :
            (IsMoveNode(game[t]) /\ PositionAnswer(t).kind = "data") => presults[t] # <<>>

\* C9: with an engine that rejects every play command, a position whose
\* replay is not empty gets no analyze command and no verdict, the batch is
\* never stuck and returns, and a position with an empty replay that the
\* engine answers keeps its verdict.
C9_AlwaysReject ==
    rejectMode = "always" =>
        /\ \A t \in Tasks :
              NeedsReplay(t) => (~tasked[t] /\ tres[t] = <<>> /\ presults[t] = <<>>)
        /\ mainpc = "running" => CanProceed
        /\ mainpc = "done" =>
              /\ returned = Filtered(presults, Len(game))
              /\ \A t \in Tasks :
                    (IsMoveNode(game[t]) /\ ~NeedsReplay(t) /\ PositionAnswer(t).kind = "data")
                        => presults[t] = <<create_position_analysis(t - 1, game[t],
                                              PositionAnswer(t), ParseBoardSize, FALSE, FALSE,
                                              NoAnswer, ErrorThreshold)>>

C9_Witness ==
    /\ mainpc = "done" /\ rejectMode = "always" /\ numEngines = 2
    /\ Len(returned) = 1
    /\ \E t \in Tasks : IsMoveNode(game[t]) /\ NeedsReplay(t) /\ presults[t] = <<>>
                        /\ PositionAnswer(t).kind = "data"

\* the tasks inside the locked section of engine e: board size, clear board,
\* replay, analyze (lines 300-331)
InSection(e) == {t \in Tasks : tstate[t] = "replay" /\ EngineOf(t) = e}

\* C11: on every engine at most one worker is inside the section from
\* set_board_size to the analysis result, it is the holder of the engine's
\* lock, and the engine's board holds the moves of that worker's position
\* alone, as far as its replay has got.
C11_MutualExclusion ==
    \A e \in 1..numEngines :
        /\ Cardinality(InSection(e)) <= 1
        /\ \A t \in InSection(e) :
              /\ elock[e] = t
              /\ eboard[e] = MovesGtp(game, tj[t] - 1, ParseBoardSize)

C11_Witness ==
    /\ numEngines = 2
    /\ \E t, u \in Tasks :
          /\ t # u /\ EngineOf(t) = EngineOf(u)
          /\ tstate[t] = "replay" /\ Len(eboard[EngineOf(t)]) > 0
          /\ tstate[u] = "wait"

\* C12: every verdict is stored at the index of the position it was
\* computed for, and the returned list is in strictly increasing order of
\* position index, whatever the order in which the workers completed.
C12_IndexOrder ==
    /\ \A t \in Tasks : presults[t] # <<>> => presults[t][1].move_number = t - 1
    /\ mainpc = "done" =>
          \A i, j \in 1..Len(returned) :
              i < j => returned[i].move_number < returned[j].move_number

C12_Witness ==
    /\ mainpc = "done" /\ Len(returned) >= 2
    /\ \E i, j \in 1..Len(corder) :
          /\ i < j /\ corder[i] > corder[j]
          /\ presults[corder[i]] # <<>> /\ presults[corder[j]] # <<>>

(***************************************************************************)
(* The sequential batch, _analyze_sequential.  sgame[k] is main_line[k-1]  *)
(* and sprops[k] its properties; si is the loop index i plus one.  The     *)
(* engine's answer to a stateless query is any of: candidates, None (no    *)
(* answer within the timeout), or an exception.                            *)
(***************************************************************************)
NoProps == [AB |-> <<>>, AW |-> <<>>, KM |-> <<>>]

\* float(s) for the texts of the model: digits, or digits '.' digit, in
\* tenths; any other text of the model raises ValueError
ParseFloat(s) ==
    LET n == Len(s)
        whole == ParseInt(s)
        front == IF n >= 3 THEN ParseInt(SubSeq(s, 1, n - 2)) ELSE [ok |-> FALSE, val |-> 0]
    IN  IF n > 0 /\ IsDigit(s[1]) /\ whole.ok THEN [ok |-> TRUE, val |-> 10 * whole.val]
        ELSE IF n >= 3 /\ IsDigit(s[1]) /\ front.ok /\ s[n - 1] = 46 /\ IsDigit(s[n])
        THEN [ok |-> TRUE, val |-> 10 * front.val + (s[n] - 48)]
        ELSE [ok |-> FALSE, val |-> 0]

\* properties.get('KM', default) then float(), with the default on failure;
\* KM is <<>> when the node has no such property, else <<text>>
KomiOr(props, default) ==
    IF props.KM = <<>> THEN default
    ELSE IF ParseFloat(props.KM[1]).ok THEN ParseFloat(props.KM[1]).val
    ELSE default

\* GameTree.get_komi, game_tree.py lines 246-256: default 6.5 (in tenths)
get_komi(properties) == KomiOr(properties[1], 65)

\* _analyze_sequential, lines 145-152: default 7.5 (in tenths)
batch_komi(properties) == KomiOr(properties[1], 75)

\* lines 163-171 / 179-187: the stones of one property's values, in GTP text;
\* a value that is not two letters long is skipped
RECURSIVE StonesOf(_, _, _, _)
StonesOf(values, n, color, board_size) ==
    IF n = 0 THEN <<>>
    ELSE LET front == StonesOf(values, n - 1, color, board_size)
             stone_pos == values[n]
         IN  IF Len(stone_pos) = 2
             THEN Append(front, <<color, coords_to_gtp(stone_pos[2] - 97,
                                                       stone_pos[1] - 97, board_size)>>)
             ELSE front

\* the stone list of a node's AB and AW properties
StoneList(props, board_size) ==
    StonesOf(props.AB, Len(props.AB), "B", board_size)
        \o StonesOf(props.AW, Len(props.AW), "W", board_size)

\* initial_stones read from the node after the root as well
initial_stones_with_child(properties, board_size) ==
    IF StoneList(properties[1], board_size) # <<>> \/ Len(properties) < 2
    THEN StoneList(properties[1], board_size)
    ELSE StoneList(properties[2], board_size)

\* lines 154-189: initial_stones, read from main_line[0].properties
initial_stones(properties, board_size) == StoneList(properties[1], board_size)

\* the arguments of a stateless query (lines 217-224, 456-462)
Query(kind, moves, stones, komi) ==
    [kind |-> kind, moves |-> moves, initial_stones |-> stones, komi |-> komi]

\* lines 217-224: the query for the position before main_line[i]
PrimaryQuery(main_line, properties, i, board_size) ==
    Query("primary", MovesGtp(main_line, i - 1, board_size),
          initial_stones(properties, board_size), batch_komi(properties))

\* lines 438-462: the query for the position after the played move; it
\* carries no initial_stones argument
SecondaryQuery(main_line, properties, i, board_size) ==
    Query("secondary",
          Append(MovesGtp(main_line, i - 1, board_size), NodeText(main_line[i], board_size)),
          <<>>, batch_komi(properties))

\* SGF points "gc" and "cg" (and an empty value); komi texts "0.5" and "x"
PointGC == <<103, 99>>

PointCG == <<99, 103>>

\* a tree built in the program with stones set on its root, a parsed file
\* with its stones on the node after the root, and a game without stones
KomiHalf == <<48, 46, 53>>

KomiBad == <<120>>

\* a main line with a pass before other moves
GamePassFirst == <<RootNode, GameNode(NoMove, "B", TRUE), GameNode(<<8, 0>>, "W", FALSE),
                   GameNode(<<8, 1>>, "B", FALSE)>>

SeqGames ==
    { [line |-> GameAB,
       props |-> <<[AB |-> <<PointGC, <<>>>>, AW |-> <<PointCG>>, KM |-> <<KomiHalf>>],
                   NoProps, NoProps, NoProps>>],
      [line |-> GameParsed,
       props |-> <<NoProps, [AB |-> <<PointGC>>, AW |-> <<>>, KM |-> <<KomiHalf>>],
                   NoProps, NoProps>>],
      [line |-> GameAB, props |-> <<NoProps, NoProps, NoProps, NoProps>>],
      [line |-> GamePassFirst,
       props |-> <<[AB |-> <<>>, AW |-> <<>>, KM |-> <<KomiBad>>], NoProps, NoProps, NoProps>>] }

SeqAnswers == {NoAnswer, Raised, AnswerA1, AnswerB1}

InitSeq ==
    /\ CodecIdle /\ ParseIdle /\ VerdictIdle /\ TreeIdle /\ ParIdle /\ EngIdle /\ InfoIdle /\ UiIdle
    /\ \E g \in SeqGames : sgame = g.line /\ sprops = g.props
    /\ si = 1
    /\ sdata = <<>>
    /\ sresults = <<>>
    /\ squeries = <<>>
    /\ sanswered = {}
    /\ spc = "loop"

\* the loop index after a position whose query failed, were it tried again
AfterFailureRetry(i) == i

\* lines 225-226: 'continue' goes on to the next node of the main line
AfterFailure(i) == i + 1

\* lines 196-198: a node without a move is skipped
SeqSkip ==
    /\ spc = "loop" /\ si <= Len(sgame)
    /\ ~IsMoveNode(sgame[si])
    /\ si' = si + 1
    /\ UNCHANGED <<sgame, sprops, sdata, sresults, squeries, sanswered, spc>>
    /\ UNCHANGED <<codecVars, parseVars, verdictVars, treeVars, parVars, engVars, infoVars, uiVars>>

\* lines 200-230: the query of the position before the move; an exception
\* of the engine call leaves the loop and the function, None skips the position
SeqPrimary ==
    /\ spc = "loop" /\ si <= Len(sgame)
    /\ IsMoveNode(sgame[si])
    /\ squeries' = Append(squeries, PrimaryQuery(sgame, sprops, si, ParseBoardSize))
    /\ \E analysis_data \in SeqAnswers :
          CASE analysis_data.kind = "raise" ->
                  /\ spc' = "raised"
                  /\ UNCHANGED <<si, sdata, sanswered>>
            [] analysis_data.kind = "none" ->
                  /\ si' = AfterFailure(si)
                  /\ UNCHANGED <<sdata, sanswered, spc>>
            [] OTHER ->
                  /\ sdata' = <<analysis_data>>
                  /\ sanswered' = sanswered \cup {si}
                  /\ spc' = "verdict"
                  /\ UNCHANGED si
    /\ UNCHANGED <<sgame, sprops, sresults>>
    /\ UNCHANGED <<codecVars, parseVars, verdictVars, treeVars, parVars, engVars, infoVars, uiVars>>

\* lines 233-242: _create_position_analysis with the primary engine, which
\* queries the played move when it is not among the candidates
SeqVerdict ==
    /\ spc = "verdict"
    /\ LET node == sgame[si]
           top_moves == parse_move_candidates(sdata[1], ParseBoardSize)
       IN  IF NeedsOpponentQuery(node, top_moves, TRUE, TRUE)
           THEN /\ squeries' = Append(squeries,
                                      SecondaryQuery(sgame, sprops, si, ParseBoardSize))
                /\ \E opponent_analysis \in SeqAnswers :
                      sresults' = Append(sresults,
                          create_position_analysis(si - 1, node, sdata[1], ParseBoardSize,
                              TRUE, TRUE, opponent_analysis, ErrorThreshold))
           ELSE /\ sresults' = Append(sresults,
                          create_position_analysis(si - 1, node, sdata[1], ParseBoardSize,
                              TRUE, TRUE, NoAnswer, ErrorThreshold))
                /\ UNCHANGED squeries
    /\ si' = si + 1
    /\ sdata' = <<>>
    /\ spc' = "loop"
    /\ UNCHANGED <<sgame, sprops, sanswered>>
    /\ UNCHANGED <<codecVars, parseVars, verdictVars, treeVars, parVars, engVars, infoVars, uiVars>>

\* line 244
SeqReturn ==
    /\ spc = "loop" /\ si > Len(sgame)
    /\ spc' = "done"
    /\ UNCHANGED <<sgame, sprops, si, sdata, sresults, squeries, sanswered>>
    /\ UNCHANGED <<codecVars, parseVars, verdictVars, treeVars, parVars, engVars, infoVars, uiVars>>

NextSeq == SeqSkip \/ SeqPrimary \/ SeqVerdict \/ SeqReturn

SpecSeq == InitSeq /\ [][NextSeq]_vars

\* C13: a failure of the engine call for one position (no answer, or an
\* exception) never ends the sequential batch: the loop goes on, the batch
\* returns, and it holds the verdict of every position the engine answered.
C13_FailureIsolated ==
    /\ spc # "raised"
    /\ spc = "done" =>
          {sresults[k].move_number + 1 : k \in 1..Len(sresults)} = sanswered

\* C20: every stateless query of the batch, primary or secondary, carries
\* the stones of the AB/AW properties of the root or, failing those, of the
\* node after the root.
C20_StonesOnEveryQuery ==
    \A k \in 1..Len(squeries) :
        squeries[k].initial_stones = initial_stones_with_child(sprops, ParseBoardSize)

(***************************************************************************)
(* The engine client, KataGoEngine, and its subprocess.  A line of output  *)
(* is its kind ("eq" for '=...', "err" for '?...', "empty", "info" for     *)
(* 'info move ...', "play" for 'play ...', "other" for anything else) and  *)
(* the request it answers (0 for none).  Time is counted in ticks of a     *)
(* blocking wait; TimeoutTicks ticks make any of the code's timeouts.      *)
(***************************************************************************)
MaxRequests == 2

MaxQueue == 2

TimeoutTicks == 1

StderrCapacity == 1

Line(kind, id) == [kind |-> kind, id |-> id]

Command(cmd, id) == [cmd |-> cmd, id |-> id]

Completed(op, result, alive, id, used) ==
    [op |-> op, result |-> result, alive |-> alive, id |-> id, used |-> used]

\* lines 84-86: the write raises when the process has exited (broken pipe)
\* or its stdin was closed by stop()
SendRaises == eproc = "handle" /\ (eos # "alive" \/ estdin = "closed")

\* lines 84-86: the command reaches the process's input, if there is a process
Sent(inbox, cmd, id) ==
    IF eproc = "handle" THEN Append(inbox, Command(cmd, id)) ELSE inbox

InitEng ==
    /\ CodecIdle /\ ParseIdle /\ VerdictIdle /\ TreeIdle /\ ParIdle /\ SeqIdle /\ InfoIdle /\ UiIdle
    /\ EngineCreated

engProcess == <<eos, ereader, equeue, einbox, pinfo, errpipe, eblocked>>

engCall == <<callpc, cop, cid, waited, clines, nreq>>

\* start(), lines 38-67: Popen fails, or the process is spawned and stays
\* alive, or it is spawned and exits at once; in the last case the writes of
\* 'name' and 'version' either find the pipe broken or still succeed.  An
\* engine object is started once, right after its construction
\* (analysis.py:67-68), so no process has been spawned before.
Start ==
    /\ callpc = "idle" /\ eproc = "none" /\ eos = "none"
    /\ \E spawn \in {"fails", "alive", "exits"}, broken \in BOOLEAN :
          IF spawn = "fails"
          THEN /\ ~broken
               /\ last' = Completed("start", "fail", FALSE, 0, {})
               /\ UNCHANGED <<eproc, erunning, estdin, engProcess>>
          ELSE /\ spawn = "alive" => ~broken
               /\ eproc' = "handle"
               /\ erunning' = TRUE
               /\ estdin' = "open"
               /\ eos' = IF spawn = "alive" THEN "alive" ELSE "exited"
               /\ ereader' = "reading"
               /\ einbox' = IF spawn = "alive"
                            THEN <<Command("name", 0), Command("version", 0)>>
                            ELSE <<>>
               /\ pinfo' = FALSE /\ errpipe' = 0 /\ eblocked' = FALSE
               /\ last' = Completed("start", IF broken THEN "fail" ELSE "ok",
                                    spawn = "alive", 0, {})
               /\ UNCHANGED equeue
    /\ UNCHANGED engCall
    /\ UNCHANGED <<codecVars, parseVars, verdictVars, treeVars, parVars, seqVars, infoVars, uiVars>>

\* stop(), lines 71-73: nothing without a process handle; else 'quit' is
\* written, stdin closed, and the wait for the exit begins
StopBegin ==
    /\ callpc = "idle"
    /\ IF eproc = "none"
       THEN /\ last' = Completed("stop", "returned", FALSE, 0, {})
            /\ UNCHANGED <<estdin, einbox, engCall>>
       ELSE IF SendRaises
       THEN /\ last' = Completed("stop", "raised", FALSE, 0, {})
            /\ UNCHANGED <<estdin, einbox, engCall>>
       ELSE /\ einbox' = Sent(einbox, "quit", 0)
            /\ estdin' = "closed"
            /\ callpc' = "stopping" /\ cop' = "stop" /\ waited' = 0
            /\ UNCHANGED <<last, cid, clines, nreq>>
    /\ UNCHANGED <<eproc, erunning, eos, ereader, equeue, pinfo, errpipe, eblocked>>
    /\ UNCHANGED <<codecVars, parseVars, verdictVars, treeVars, parVars, seqVars, infoVars, uiVars>>

\* stop(), lines 74-76: the process has exited within the wait
StopWait ==
    /\ callpc = "stopping" /\ eos = "exited"
    /\ erunning' = FALSE
    /\ eproc' = "none"
    /\ callpc' = "idle"
    /\ last' = Completed("stop", "returned", FALSE, 0, {})
    /\ UNCHANGED <<estdin, engProcess, cop, cid, waited, clines, nreq>>
    /\ UNCHANGED <<codecVars, parseVars, verdictVars, treeVars, parVars, seqVars, infoVars, uiVars>>

\* stop(), line 74: process.wait(timeout=5) expires and raises; lines 75-76
\* are not reached
StopGrace ==
    /\ callpc = "stopping" /\ eos = "alive" /\ waited = TimeoutTicks
    /\ callpc' = "idle"
    /\ last' = Completed("stop", "raised", FALSE, 0, {})
    /\ UNCHANGED <<eproc, erunning, estdin, engProcess, cop, cid, waited, clines, nreq>>
    /\ UNCHANGED <<codecVars, parseVars, verdictVars, treeVars, parVars, seqVars, infoVars, uiVars>>

\* the subprocess exits: on 'quit', on the end of its input, or by itself
ProcExit ==
    /\ eos = "alive"
    /\ eos' = "exited"
    /\ UNCHANGED <<eproc, erunning, estdin, ereader, equeue, einbox, pinfo, errpipe,
                   eblocked, engCall, last>>
    /\ UNCHANGED <<codecVars, parseVars, verdictVars, treeVars, parVars, seqVars, infoVars, uiVars>>

\* _read_output, lines 95-97: readline returns '' at the end of the output
ReaderEnds ==
    /\ ereader = "reading" /\ eos = "exited"
    /\ ereader' = "ended"
    /\ UNCHANGED <<eproc, erunning, estdin, eos, equeue, einbox, pinfo, errpipe,
                   eblocked, engCall, last>>
    /\ UNCHANGED <<codecVars, parseVars, verdictVars, treeVars, parVars, seqVars, infoVars, uiVars>>

\* the subprocess writes to its standard error (stderr=PIPE, line 48, read by
\* nobody); with the pipe full the write blocks the process
ProcStderr ==
    /\ eos = "alive" /\ ~eblocked
    /\ IF errpipe < StderrCapacity
       THEN errpipe' = errpipe + 1 /\ UNCHANGED eblocked
       ELSE eblocked' = TRUE /\ UNCHANGED errpipe
    /\ UNCHANGED <<eproc, erunning, estdin, eos, ereader, equeue, einbox, pinfo,
                   engCall, last>>
    /\ UNCHANGED <<codecVars, parseVars, verdictVars, treeVars, parVars, seqVars, infoVars, uiVars>>

Kept(lines, line) ==
    [first |-> IF lines.first = "none" THEN line.kind ELSE lines.first,
     from |-> IF lines.first = "none" THEN line.id ELSE lines.from,
     used |-> lines.used \cup {line.id}]

RequestOps == {"set_board_size", "clear_board", "play_move", "analyze"}

\* lines 150, 160, 175, 194-195: the command is sent and the wait begins
CallBegin(op) ==
    /\ callpc = "idle" /\ nreq < MaxRequests
    /\ nreq' = nreq + 1
    /\ IF SendRaises
       THEN /\ last' = Completed(op, "raised", FALSE, nreq + 1, {})
            /\ UNCHANGED <<einbox, callpc, cop, cid, waited, clines>>
       ELSE /\ einbox' = Sent(einbox, op, nreq + 1)
            /\ callpc' = "waiting" /\ cop' = op /\ cid' = nreq + 1
            /\ waited' = 0 /\ clines' = NoLines
            /\ UNCHANGED last
    /\ UNCHANGED <<eproc, erunning, eos, estdin, ereader, equeue, pinfo, errpipe, eblocked>>
    /\ UNCHANGED <<codecVars, parseVars, verdictVars, treeVars, parVars, seqVars, infoVars, uiVars>>

\* response.startswith('='), lines 152, 163, 179
ResponseResult(lines) == IF lines.first = "eq" THEN "ok" ELSE "fail"

\* one turn of the loop of get_response (lines 115-124) or of analyze_position
\* (lines 201-242): a line is taken from the queue
ClientGet ==
    /\ callpc = "waiting" /\ equeue # <<>>
    /\ equeue' = Tail(equeue)
    /\ waited' = 0
    /\ LET line == Head(equeue)
       IN  IF cop = "analyze"
           THEN IF line.kind = "play"
                THEN /\ callpc' = "idle"
                     /\ last' = Completed(cop, "data", FALSE, cid, Kept(clines, line).used)
                     /\ UNCHANGED clines
                ELSE /\ clines' = IF line.kind = "info" THEN Kept(clines, line) ELSE clines
                     /\ UNCHANGED <<callpc, last>>
           ELSE IF line.kind = "empty"
                THEN UNCHANGED <<callpc, clines, last>>
                ELSE /\ clines' = Kept(clines, line)
                     /\ callpc' = IF line.kind \in {"eq", "err"} THEN "draining" ELSE callpc
                     /\ UNCHANGED last
    /\ UNCHANGED <<eproc, erunning, eos, estdin, ereader, einbox, pinfo, errpipe, eblocked,
                   cop, cid, nreq>>
    /\ UNCHANGED <<codecVars, parseVars, verdictVars, treeVars, parVars, seqVars, infoVars, uiVars>>

\* get_response, lines 126-134: after the '=' or '?' line, lines are read up
\* to an empty one
ClientDrain ==
    /\ callpc = "draining" /\ equeue # <<>>
    /\ equeue' = Tail(equeue)
    /\ waited' = 0
    /\ LET line == Head(equeue)
       IN  IF line.kind = "empty"
           THEN /\ callpc' = "idle"
                /\ last' = Completed(cop, ResponseResult(clines), FALSE, cid, clines.used)
                /\ UNCHANGED clines
           ELSE /\ clines' = Kept(clines, line)
                /\ UNCHANGED <<callpc, last>>
    /\ UNCHANGED <<eproc, erunning, eos, estdin, ereader, einbox, pinfo, errpipe, eblocked,
                   cop, cid, nreq>>
    /\ UNCHANGED <<codecVars, parseVars, verdictVars, treeVars, parVars, seqVars, infoVars, uiVars>>

\* time passes in a blocking wait: queue.get on the empty queue, or
\* process.wait on the live process
Tick ==
    /\ \/ callpc \in {"waiting", "draining"} /\ equeue = <<>>
       \/ callpc = "stopping" /\ eos = "alive"
    /\ waited < TimeoutTicks
    /\ waited' = waited + 1
    /\ UNCHANGED <<eproc, erunning, estdin, engProcess, callpc, cop, cid, clines, nreq, last>>
    /\ UNCHANGED <<codecVars, parseVars, verdictVars, treeVars, parVars, seqVars, infoVars, uiVars>>

\* a timeout that hands back what was collected so far
TimeoutResultPartial(op, id, lines) ==
    Completed(op, IF lines.used = {} THEN "none" ELSE "data", FALSE, id, lines.used)

\* except Empty: return None
TimeoutResult(op, id, lines) == Completed(op, "none", FALSE, id, {})

\* lines 136-137, 244-246: queue.get raises Empty, the call returns None
ClientTimeout ==
    /\ callpc = "waiting" /\ equeue = <<>> /\ waited = TimeoutTicks
    /\ callpc' = "idle"
    /\ last' = TimeoutResult(cop, cid, clines)
    /\ UNCHANGED <<eproc, erunning, estdin, engProcess, cop, cid, waited, clines, nreq>>
    /\ UNCHANGED <<codecVars, parseVars, verdictVars, treeVars, parVars, seqVars, infoVars, uiVars>>

\* lines 132-133: Empty in the inner loop ends the response
DrainTimeout ==
    /\ callpc = "draining" /\ equeue = <<>> /\ waited = TimeoutTicks
    /\ callpc' = "idle"
    /\ last' = Completed(cop, ResponseResult(clines), FALSE, cid, clines.used)
    /\ UNCHANGED <<eproc, erunning, estdin, engProcess, cop, cid, waited, clines, nreq>>
    /\ UNCHANGED <<codecVars, parseVars, verdictVars, treeVars, parVars, seqVars, infoVars, uiVars>>

\* the subprocess writes the next line of its answer to the oldest command:
\* '=' or '?' and then an empty line, or for an analysis an 'info move' line
\* and then the 'play' line; the reader thread puts it on the queue (lines
\* 95-98)
ProcAnswer ==
    /\ eos = "alive" /\ ~eblocked /\ ereader = "reading"
    /\ einbox # <<>> /\ Head(einbox).cmd # "quit"
    /\ LET c == Head(einbox)
       IN  IF c.cmd = "analyze"
           THEN /\ Len(equeue) < MaxQueue
                /\ \/ /\ ~pinfo
                      /\ equeue' = Append(equeue, Line("info", c.id))
                      /\ pinfo' = TRUE
                      /\ UNCHANGED einbox
                   \/ /\ equeue' = Append(equeue, Line("play", c.id))
                      /\ pinfo' = FALSE
                      /\ einbox' = Tail(einbox)
           ELSE /\ Len(equeue) < MaxQueue
                /\ IF ~pinfo
                   THEN /\ \E k \in {"eq", "err"} :
                              equeue' = Append(equeue, Line(k, c.id))
                        /\ pinfo' = TRUE
                        /\ UNCHANGED einbox
                   ELSE /\ equeue' = Append(equeue, Line("empty", c.id))
                        /\ pinfo' = FALSE
                        /\ einbox' = Tail(einbox)
    /\ UNCHANGED <<eproc, erunning, estdin, eos, ereader, errpipe, eblocked, engCall, last>>
    /\ UNCHANGED <<codecVars, parseVars, verdictVars, treeVars, parVars, seqVars, infoVars, uiVars>>

\* the subprocess writes a line that ends no response
ProcChatter ==
    /\ eos = "alive" /\ ~eblocked /\ ereader = "reading"
    /\ Len(equeue) < MaxQueue
    /\ equeue' = Append(equeue, Line("other", 0))
    /\ UNCHANGED <<eproc, erunning, estdin, eos, ereader, einbox, pinfo, errpipe, eblocked,
                   engCall, last>>
    /\ UNCHANGED <<codecVars, parseVars, verdictVars, treeVars, parVars, seqVars, infoVars, uiVars>>

ClientStep ==
    \/ ClientGet \/ ClientDrain \/ ClientTimeout \/ DrainTimeout
    \/ StopWait \/ StopGrace

NextEng ==
    \/ Start
    \/ StopBegin
    \/ \E op \in RequestOps : CallBegin(op)
    \/ ClientStep
    \/ Tick
    \/ ProcAnswer
    \/ ProcChatter
    \/ ProcStderr
    \/ ProcExit
    \/ ReaderEnds

SpecEng == InitEng /\ [][NextEng]_vars

\* the client's threads and the clock go on; nothing is assumed of the subprocess
FairSpecEng == SpecEng /\ WF_vars(ClientStep) /\ WF_vars(Tick)

\* C14: every request of the client that has begun to wait for its answer
\* returns in the end, whatever lines the subprocess goes on writing.
C14_CallsReturn == (callpc \in {"waiting", "draining"}) ~> (callpc = "idle")

\* C15: whenever a call of stop() is over, the engine has no process handle
\* and is not running.
C15_StopEndsStopped ==
    last.op = "stop" => (eproc = "none" /\ ~erunning)

\* C16: once stop() has asked a running engine's process to quit, the process
\* is gone in the end and the client is stopped, also when the process does
\* not heed the request.
C16_StopEventuallyStops ==
    (callpc = "stopping") ~> (eos # "alive" /\ eproc = "none" /\ ~erunning)

\* C17: a start() that reported success found the process alive, and a
\* start() that reported failure has not left the client running.
C17_StartReportsTruth ==
    last.op = "start" =>
        /\ last.result = "ok" => last.alive
        /\ last.result = "fail" => ~erunning

\* C18: while the engine is running its subprocess is never blocked on a
\* write to its standard error.
C18_StderrNeverBlocks == erunning => ~eblocked

\* C19: the data an analysis request returns is built from lines that
\* answer that very request.
C19_ResponseMatchesRequest ==
    (last.op = "analyze" /\ last.result = "data") => last.used = {last.id}

\* C21: every query of the batch carries one and the same komi, the value
\* of the tree's metadata, and without usable metadata the default that the
\* tree's own komi lookup (used by the single-position analysis) gives.
C21_KomiSameDefault ==
    \A k \in 1..Len(squeries) : squeries[k].komi = get_komi(sprops)

\* the primary queries issued so far
PrimaryCount == Cardinality({k \in 1..Len(squeries) : squeries[k].kind = "primary"})

\* C22: when every engine query of the batch was answered, the returned
\* batch holds exactly one verdict per main-line node that has a move or is
\* a pass and none for the nodes without a move, in main-line order, each
\* with the move of its node as the played move.
C22_OneVerdictPerMove ==
    (spc = "done" /\ Cardinality(sanswered) = PrimaryCount) =>
        LET idx == {k \in 1..Len(sgame) : sgame[k].move # NoMove \/ sgame[k].is_pass}
        IN  /\ Len(sresults) = Cardinality(idx)
            /\ \A k \in 1..Len(sresults) :
                  /\ sresults[k].move_number + 1 \in idx
                  /\ sresults[k].played_move = sgame[sresults[k].move_number + 1].move
            /\ \A k \in 1..(Len(sresults) - 1) :
                  sresults[k].move_number < sresults[k + 1].move_number

C22_Witness ==
    /\ spc = "done" /\ Cardinality(sanswered) = PrimaryCount
    /\ sgame[2].move = NoMove /\ ~sgame[2].is_pass
    /\ Len(sresults) = 2
    /\ sgame[4].is_pass /\ sresults[2].move_number = 3

\* C23: the primary query of a main-line node carries the moves and passes
\* of exactly the nodes before it, in order, without the node's own move; the
\* secondary query of that node carries that same prefix followed by the
\* node's move.
C23_ExactPrefix ==
    LET idx == {k \in 1..Len(sgame) : sgame[k].move # NoMove \/ sgame[k].is_pass}
        Cnt(n) == Cardinality({j \in idx : j <= n})
        Nth(r) == CHOOSE j \in idx : Cnt(j) = r
        Text(j) == IF sgame[j].is_pass THEN PassText
                   ELSE coords_to_gtp(sgame[j].move[1], sgame[j].move[2], ParseBoardSize)
        Pre(i) == [r \in 1..Cnt(i - 1) |-> Text(Nth(r))]
        Asked(p) == Nth(Cardinality({k \in 1..p : squeries[k].kind = "primary"}))
    IN  \A p \in 1..Len(squeries) :
           /\ squeries[p].kind = "primary" => squeries[p].moves = Pre(Asked(p))
           /\ squeries[p].kind = "secondary" =>
                 /\ p > 1 /\ squeries[p - 1].kind = "primary"
                 /\ squeries[p].moves = Append(Pre(Asked(p)), Text(Asked(p)))

C23_Witness ==
    \E p \in 1..Len(squeries) :
        /\ squeries[p].kind = "secondary"
        /\ Len(squeries[p].moves) = 3
        /\ squeries[p].moves[1] = PassText
        /\ squeries[p - 1].moves = SubSeq(squeries[p].moves, 1, 2)

\* C25: play_move returns success exactly when the engine's response to
\* that very play command begins with '=': the line it judges is the first
\* line of the answer to the command it sent.
C25_PlayJudgesOwnResponse ==
    (callpc = "idle" /\ last.op = "play_move" /\ last.id = cid
        /\ last.result \in {"ok", "fail"}) =>
        /\ clines.from = cid
        /\ last.result = "ok" <=> clines.first = "eq"

\* C28: an analysis call that times out returns None with nothing of what
\* it collected; a call that returns candidates does so on the terminator
\* line and returns every record it took from the queue during the call.
C28_AllOrNothing ==
    [][ (cop = "analyze" /\ callpc = "waiting") =>
          /\ (callpc' = "idle" /\ equeue = <<>>) =>
                (last'.result = "none" /\ last'.used = {})
          /\ (callpc' = "idle" /\ equeue # <<>>) =>
                /\ Head(equeue).kind = "play"
                /\ last'.result = "data"
                /\ clines.used \subseteq last'.used
          /\ callpc' = "waiting" =>
                /\ clines.used \subseteq clines'.used
                /\ (equeue # <<>> /\ equeue' = Tail(equeue) /\ Head(equeue).kind = "info") =>
                      Head(equeue).id \in clines'.used ]_vars

\* an analysis that timed out after it had collected a record
C28_Witness ==
    /\ callpc = "idle" /\ last.op = "analyze" /\ last.id = cid
    /\ last.result = "none" /\ last.used = {}
    /\ clines.used # {}

\* C27: the candidate list built for the verdict from a response of the
\* stateful dialect is in the order of the engine's rank field, rank 0
\* first, whatever the score leads are.
C27_SortedByEngineOrder ==
    ppc = "parsed" =>
        \A i, j \in 1..Len(parsed) : i < j => parsed[i].order <= parsed[j].order

\* C30: with K engines started, the primary included, the position at
\* main-line index i is only ever analysed on engine i mod K, no more than
\* K positions are worked on at a time, and K is between 1 and 8.
C30_RoundRobin ==
    /\ numEngines >= 1 /\ numEngines <= 8
    /\ Cardinality(Running) <= numEngines
    /\ \A e \in 1..numEngines :
          elock[e] # 0 => (elock[e] - 1) % numEngines = e - 1

\* two engines: the third position holds the first engine while the second
\* position holds the second
C30_Witness ==
    /\ numEngines = 2
    /\ elock[1] = 3 /\ elock[2] = 2

(***************************************************************************)
(* One response of the stateful dialect: analyze_position splits the lines *)
(* into records and parses them (engine.py), _parse_move_candidates makes  *)
(* the candidate list of them (analysis.py).  A line is the list of its    *)
(* tokens, which the engine separates by single spaces.                    *)
(***************************************************************************)
TokInfo == <<105, 110, 102, 111>>

TokMove == <<109, 111, 118, 101>>

TokVisits == <<118, 105, 115, 105, 116, 115>>

TokOrder == <<111, 114, 100, 101, 114>>

TokWinrate == <<119, 105, 110, 114, 97, 116, 101>>

TokPrior == <<112, 114, 105, 111, 114>>

TokLcb == <<108, 99, 98>>

TokPv == <<112, 118>>

TokScoreLead == <<115, 99, 111, 114, 101, 76, 101, 97, 100>>

\* line.split(' info move '), lines 226: the separator needs a space before
\* and after it, so it is found from the second token on and only when a
\* token follows it, and a separator cannot begin with the token that follows
\* another separator; p is the next position to look at, s the start of the
\* segment being read
RECURSIVE SplitFrom(_, _, _)
SplitFrom(tokens, p, s) ==
    IF p + 2 > Len(tokens) THEN <<SubSeq(tokens, s, Len(tokens))>>
    ELSE IF tokens[p] = TokInfo /\ tokens[p + 1] = TokMove
    THEN <<SubSeq(tokens, s, p - 1)>> \o SplitFrom(tokens, p + 3, p + 2)
    ELSE SplitFrom(tokens, p + 1, s)

\* no splitting: the line is one record
SegmentsWhole(tokens) == <<tokens>>

Segments(tokens) == SplitFrom(tokens, 2, 1)

NoData ==
    [move |-> <<>>, visits |-> <<>>, order |-> <<>>, winrate |-> <<>>,
     scoreLead |-> <<>>, pv |-> <<>>]

\* a Python number or string as a dictionary value
Num(v) == [num |-> TRUE, val |-> v]

Str(s) == [num |-> FALSE, val |-> 0]

\* (wr - 0.5) * 40.0 with wr = value / 10000, lines 293-297: in half points,
\* from the value in tenths; exact on multiples of 125
ScoreLeadOfWinrate(tenths) == (tenths - 50000) \div 1250

\* the loop of lines 268-289 from parts[i] on (i counts from 1); ok = FALSE
\* when int() or float() raises
RECURSIVE ParsePairs(_, _, _)
ParsePairs(parts, i, data) ==
    IF i > Len(parts) THEN [ok |-> TRUE, data |-> data]
    ELSE IF i + 1 > Len(parts) THEN ParsePairs(parts, i + 1, data)
    ELSE LET key == parts[i]
             value_str == parts[i + 1]
         IN  IF key = TokPv
             THEN [ok |-> TRUE,
                   data |-> [data EXCEPT !.pv = <<SubSeq(parts, i + 1, Len(parts))>>]]
             ELSE IF key \in {TokVisits, TokOrder}
             THEN IF ~ParseInt(value_str).ok THEN [ok |-> FALSE, data |-> data]
                  ELSE ParsePairs(parts, i + 2,
                          IF key = TokVisits
                          THEN [data EXCEPT !.visits = <<ParseInt(value_str).val>>]
                          ELSE [data EXCEPT !.order = <<ParseInt(value_str).val>>])
             ELSE IF key \in {TokWinrate, TokPrior, TokLcb}
             THEN IF ~ParseFloat(value_str).ok THEN [ok |-> FALSE, data |-> data]
                  ELSE ParsePairs(parts, i + 2,
                          IF key = TokWinrate
                          THEN [data EXCEPT !.winrate = <<ParseFloat(value_str).val>>]
                          ELSE data)
             ELSE ParsePairs(parts, i + 2,
                     IF key = TokMove THEN [data EXCEPT !.move = value_str]
                     ELSE IF key = TokScoreLead
                     THEN [data EXCEPT !.scoreLead = <<Str(value_str)>>]
                     ELSE data)

\* _parse_info_line, lines 250-303: <<>> for None, else <<data>>
parse_info_line(parts) ==
    IF Len(parts) < 4 \/ parts[1] # TokInfo \/ parts[2] # TokMove THEN <<>>
    ELSE LET r == ParsePairs(parts, 4, [NoData EXCEPT !.move = parts[3]])
         IN  IF ~r.ok THEN <<>>
             ELSE IF r.data.winrate # <<>>
             THEN <<[r.data EXCEPT
                        !.scoreLead = <<Num(ScoreLeadOfWinrate(r.data.winrate[1]))>>]>>
             ELSE <<r.data>>

\* lines 228-242: the records of the segments k.. of one line
RECURSIVE SegmentInfos(_, _)
SegmentInfos(segments, k) ==
    IF k > Len(segments) THEN <<>>
    ELSE LET parse_line == IF k = 1 THEN segments[k]
                           ELSE <<TokInfo, TokMove>> \o segments[k]
         IN  parse_info_line(parse_line) \o SegmentInfos(segments, k + 1)

\* lines 218-242 for one line: only a line that starts with 'info move ' counts
LineInfos(line) ==
    IF Len(line) >= 3 /\ line[1] = TokInfo /\ line[2] = TokMove
    THEN SegmentInfos(Segments(line), 1)
    ELSE <<>>

RECURSIVE AllInfos(_)
AllInfos(lines) ==
    IF Len(lines) = 0 THEN <<>>
    ELSE AllInfos(SubSeq(lines, 1, Len(lines) - 1)) \o LineInfos(lines[Len(lines)])

\* analyze_position, lines 197-215, for a response whose lines are followed
\* by the 'play' line
analyze_position(lines) == [kind |-> "data", moveInfos |-> AllInfos(lines)]

\* move_info.get(key, default), analysis.py lines 616, 629-633, for the entry
\* at index i of enumerate
MoveInfoOf(data, i) ==
    [move |-> data.move,
     visits |-> IF data.visits = <<>> THEN 0 ELSE data.visits[1],
     scoreLead |-> IF data.scoreLead = <<>> THEN Num(0) ELSE data.scoreLead[1],
     order |-> IF data.order = <<>> THEN i ELSE data.order[1]]

\* _parse_move_candidates on the records of analyze_position: the sort compares
\* the score leads, and a string does not compare with a float (TypeError);
\* the strings of the model are equal, a list of them stays as it is
candidates_of(analysis_data, board_size) ==
    LET infos == analysis_data.moveInfos
        typed == [j \in 1..Len(infos) |-> MoveInfoOf(infos[j], j - 1)]
        kept == Dedup(ParseAll(typed, board_size))
        nums == {j \in 1..Len(kept) : kept[j].score_lead.num}
        plain == [j \in 1..Len(kept) |-> [kept[j] EXCEPT !.score_lead = @.val]]
        sorted == SortByScoreLead(plain)
    IN  IF nums # {} /\ nums # 1..Len(kept) THEN [kind |-> "raise", list |-> <<>>]
        ELSE IF nums = {} THEN [kind |-> "list", list |-> kept]
        ELSE [kind |-> "list",
              list |-> [j \in 1..Len(sorted) |->
                          [sorted[j] EXCEPT !.score_lead = Num(@)]]]

Tok5 == <<53>>

Tok7 == <<55>>

TokX == <<120>>

\* "info move A1 visits 5 winrate 6000 order 0"
RecA1 == <<TokInfo, TokMove, TextA1, TokVisits, Tok5, TokWinrate, <<54, 48, 48, 48>>,
           TokOrder, <<48>>>>

\* "info move B1 visits 7 winrate 4000 order 1 pv B1 A1"
RecB1 == <<TokInfo, TokMove, TextB1, TokVisits, Tok7, TokWinrate, <<52, 48, 48, 48>>,
           TokOrder, <<49>>, TokPv, TextB1, TextA1>>

\* "info move A1": too few fields
BadShort == <<TokInfo, TokMove, TextA1>>

\* "info move A1 visits": a field without its value
BadNoValue == <<TokInfo, TokMove, TextA1, TokVisits>>

\* "info move A1 visits x"
BadVisits == <<TokInfo, TokMove, TextA1, TokVisits, TokX>>

\* "info move B1 visits 5 winrate x"
BadWinrate == <<TokInfo, TokMove, TextB1, TokVisits, Tok5, TokWinrate, TokX>>

\* "info move A visits 5 winrate 4000": the move text has no row
BadMove == <<TokInfo, TokMove, <<65>>, TokVisits, Tok5, TokWinrate, <<52, 48, 48, 48>>>>

\* "info move B1 visits 5 scoreLead x"
BadScore == <<TokInfo, TokMove, TextB1, TokVisits, Tok5, TokScoreLead, TokX>>

WellFormedRecords == {RecA1, RecB1}

MalformedRecords == {BadShort, BadNoValue, BadVisits, BadWinrate, BadMove, BadScore}

\* a line that is no record, "x x"
OtherLine == <<TokX, TokX>>

MaxRecords == 3

InitInfo ==
    /\ CodecIdle /\ ParseIdle /\ VerdictIdle /\ TreeIdle /\ ParIdle /\ SeqIdle /\ EngIdle
    /\ UiIdle
    /\ ilines = <<>> /\ irecs = <<>>
    /\ iresult = [kind |-> "none", moveInfos |-> <<>>]
    /\ icands = [kind |-> "none", list |-> <<>>]
    /\ ipc = "writing"

infoFixed == <<codecVars, parseVars, verdictVars, treeVars, parVars, seqVars, engVars, uiVars>>

\* the engine writes a record on a line of its own
EngineLine ==
    /\ ipc = "writing" /\ Len(irecs) < MaxRecords
    /\ \E r \in WellFormedRecords \cup MalformedRecords :
          /\ ilines' = Append(ilines, r)
          /\ irecs' = Append(irecs, r)
    /\ UNCHANGED <<iresult, icands, ipc>>
    /\ UNCHANGED infoFixed

\* the engine writes a record behind the last one, on the same line
EngineConcat ==
    /\ ipc = "writing" /\ Len(irecs) < MaxRecords
    /\ ilines # <<>> /\ ilines[Len(ilines)] # OtherLine
    /\ \E r \in WellFormedRecords \cup MalformedRecords :
          /\ ilines' = [ilines EXCEPT ![Len(ilines)] = @ \o r]
          /\ irecs' = Append(irecs, r)
    /\ UNCHANGED <<iresult, icands, ipc>>
    /\ UNCHANGED infoFixed

\* the engine writes a line that is no record
EngineOther ==
    /\ ipc = "writing" /\ Len(irecs) < MaxRecords
    /\ OtherLine \notin {ilines[k] : k \in 1..Len(ilines)}
    /\ ilines' = Append(ilines, OtherLine)
    /\ UNCHANGED <<irecs, iresult, icands, ipc>>
    /\ UNCHANGED infoFixed

\* the 'play' line arrives: analyze_position returns
AnalyzeReturns ==
    /\ ipc = "writing"
    /\ iresult' = analyze_position(ilines)
    /\ ipc' = "analyzed"
    /\ UNCHANGED <<ilines, irecs, icands>>
    /\ UNCHANGED infoFixed

\* _create_position_analysis parses the candidates
CandidatesParsed ==
    /\ ipc = "analyzed"
    /\ icands' = candidates_of(iresult, ParseBoardSize)
    /\ ipc' = "parsed"
    /\ UNCHANGED <<ilines, irecs, iresult>>
    /\ UNCHANGED infoFixed

NextInfo ==
    \/ EngineLine
    \/ EngineConcat
    \/ EngineOther
    \/ AnalyzeReturns
    \/ CandidatesParsed

SpecInfo == InitInfo /\ [][NextInfo]_vars

\* C26: for a response of well-formed records, analyze_position returns one
\* candidate per record, in the order the records appear, however the
\* records are spread over the lines: as many as there are record starts.
C26_OneCandidatePerRecord ==
    (ipc \in {"analyzed", "parsed"} /\ \A k \in 1..Len(irecs) : irecs[k] \in WellFormedRecords) =>
        /\ Len(iresult.moveInfos) = Len(irecs)
        /\ \A k \in 1..Len(irecs) :
              /\ iresult.moveInfos[k].move = irecs[k][3]
              /\ iresult.moveInfos[k].visits = <<ParseInt(irecs[k][5]).val>>

\* three records on two lines, two of them on one line
C26_Witness ==
    /\ ipc = "analyzed"
    /\ Len(ilines) = 2 /\ Len(irecs) = 3 /\ Len(iresult.moveInfos) = 3
    /\ \A k \in 1..3 : irecs[k] \in WellFormedRecords

\* C29: a malformed record of a response is dropped and the well-formed
\* ones are returned: no exception escapes, every candidate comes from a
\* well-formed record and every well-formed record's move is a candidate.
C29_MalformedSkipped ==
    ipc = "parsed" =>
        /\ icands.kind # "raise"
        /\ \A j \in 1..Len(icands.list) :
              \E k \in 1..Len(irecs) :
                  /\ irecs[k] \in WellFormedRecords
                  /\ gtp_to_coords(irecs[k][3], ParseBoardSize)
                        = Coords(icands.list[j].move[1], icands.list[j].move[2])
        /\ \A k \in 1..Len(irecs) :
              irecs[k] \in WellFormedRecords =>
                  \E j \in 1..Len(icands.list) :
                      gtp_to_coords(irecs[k][3], ParseBoardSize)
                         = Coords(icands.list[j].move[1], icands.list[j].move[2])

\* C31: the progress callback is called with 1, 2, ..., k in this order,
\* no value repeated or skipped, always with the length of the main line as
\* total, and k is the number of positions whose verdict was completed.
C31_ProgressCounts ==
    /\ \A k \in 1..Len(preported) : preported[k] = <<k, Len(game)>>
    /\ Len(preported) =
          Cardinality({t \in Tasks : tstate[t] \in {"finished", "collected"} /\ tres[t] # <<>>})

\* two engines: a second position is ready to count while the first one is
\* between its increment and its callback
C31_Witness ==
    /\ numEngines = 2
    /\ \E t, u \in Tasks : t # u /\ tstate[t] = "counted" /\ tstate[u] = "analysed"
    /\ Len(preported) = 1

(***************************************************************************)
(* The parallel batch with pool engines that fail to start, on two main    *)
(* lines, with an engine that gives every position the same answer.        *)
(***************************************************************************)
StartOutcomes == {"ok", "fail", "raise"}

\* the results of start() on n pool engines
StartResults(n) == [1..n -> StartOutcomes]

\* values of the num_threads argument
PoolSettings == {1, 2, 4}

\* a main line on which White moves first and Black moves twice in a row
GameWhiteFirst == <<RootNode, GameNode(<<8, 0>>, "W", FALSE), GameNode(<<8, 1>>, "B", FALSE),
                    GameNode(<<7, 0>>, "B", FALSE)>>

PoolGames == {GameAB, GameWhiteFirst}

InitPool ==
    \E main_line \in PoolGames, setting \in PoolSettings, answer \in StubAnswers,
       mode \in {"never", "always"} :
      \E results \in StartResults(ClampThreads(setting) - 1) :
          ParStart(main_line, [k \in 1..(NumMoves(main_line) + 1) |-> answer], mode, results)

SpecPool == InitPool /\ [][NextPar]_vars

\* the engine that start() was called on successfully: the primary engine
\* (started by the caller) or a pool engine whose start() returned True
Started(engine) == engine = 1 \/ pstart[engine - 1] = "ok"

\* C32: a pool engine that fails to start is left out and the batch goes
\* on with the engines that started, the primary first: every position is
\* worked on by a started engine, and the batch is never stuck.
C32_FailedStartLeftOut ==
    /\ Len(all_engines) >= 1 /\ all_engines[1] = 1
    /\ \A e \in 1..Len(all_engines) : Started(all_engines[e])
    /\ \A e \in 1..numEngines : elock[e] # 0 => Started(all_engines[e])
    /\ mainpc = "running" => CanProceed
    /\ (mainpc = "done" /\ rejectMode = "never") =>
          \A t \in Tasks :
              (IsMoveNode(game[t]) /\ PositionAnswer(t).kind = "data") => presults[t] # <<>>

\* the first pool engine failed, the next one started and holds a position
C32_Witness ==
    /\ Len(pstart) >= 2 /\ pstart[1] # "ok" /\ pstart[2] = "ok"
    /\ all_engines = <<1, 3>>
    /\ elock[2] # 0

\* C39: when the parallel batch has returned the pool is empty, stop() was
\* called on every pool engine that had started, also when a stop()
\* raised, and it was not called on the primary engine.
C39_PoolTornDown ==
    mainpc = "done" =>
        /\ pool = <<>>
        /\ pstopped = {i + 1 : i \in {k \in 1..Len(pstart) : pstart[k] = "ok"}}
        /\ 1 \notin pstopped

\* three pool engines of which the second did not start
C39_Witness ==
    /\ mainpc = "done"
    /\ Len(pstart) = 3 /\ pstopped = {2, 4}

\* the queries of one kind issued for the position of main-line node k
QueriesFor(kind, k) ==
    LET q == IF kind = "primary" THEN PrimaryQuery(sgame, sprops, k, ParseBoardSize)
             ELSE SecondaryQuery(sgame, sprops, k, ParseBoardSize)
    IN  {p \in 1..Len(squeries) : squeries[p] = q}

\* C33: every position of the batch is queried at most once for its primary
\* query and at most once for its secondary query; a position whose query
\* failed has no verdict and no secondary query and is not queried again, and
\* no position has more than one verdict.
C33_NoRequeue ==
    \A k \in 1..Len(sgame) :
        IsMoveNode(sgame[k]) =>
            /\ Cardinality(QueriesFor("primary", k)) <= 1
            /\ Cardinality(QueriesFor("secondary", k)) <= 1
            /\ Cardinality({r \in 1..Len(sresults) : sresults[r].move_number = k - 1}) <= 1
            /\ k > si => QueriesFor("primary", k) = {} /\ QueriesFor("secondary", k) = {}
            /\ (k < si /\ k \notin sanswered) =>
                  /\ QueriesFor("secondary", k) = {}
                  /\ \A r \in 1..Len(sresults) : sresults[r].move_number # k - 1

C33_Witness ==
    /\ spc = "done"
    /\ \E k \in 1..Len(sgame) :
          /\ IsMoveNode(sgame[k])
          /\ QueriesFor("primary", k) # {} /\ k \notin sanswered
          /\ \E j \in (k + 1)..Len(sgame) :
                IsMoveNode(sgame[j]) /\ QueriesFor("secondary", j) # {} /\ j \in sanswered

\* a node is reachable from the root along children lists
RECURSIVE ReachableFromRoot(_, _)
ReachableFromRoot(tree, n) ==
    IF tree[n].parent = 0 THEN n = 1
    ELSE /\ \E k \in 1..Len(tree[tree[n].parent].children) :
               tree[tree[n].parent].children[k] = n
         /\ ReachableFromRoot(tree, tree[n].parent)

NavigationOps == {"go_to_next", "go_to_previous", "go_to_root", "go_to_move_number"}

\* the tree is well formed: a node has a coordinate only if it is neither a
\* pass nor the root, the cursor is reachable from the root, and the main
\* line starts at the root and goes from each node to its first child until
\* a node without children
TreeWellFormed ==
    /\ \A n \in 1..Len(nodes) :
          nodes[n].move # NoMove => (~nodes[n].is_pass /\ nodes[n].parent # 0)
    /\ current \in 1..Len(nodes)
    /\ ReachableFromRoot(nodes, current)
    /\ LET line == get_main_line(nodes)
       IN  /\ line[1] = 1
           /\ \A k \in 1..(Len(line) - 1) : line[k + 1] = nodes[line[k]].children[1]
           /\ nodes[line[Len(line)]].children = <<>>
           /\ \A k \in 1..Len(line) : ReachableFromRoot(nodes, line[k])

\* C34: under every sequence of add_move, add_pass, go_to_next,
\* go_to_previous, go_to_root, go_to_move_number and clear_from_current the
\* tree stays well formed (coordinates only on nodes that are neither pass
\* nor root, cursor reachable from the root, main line along first
\* children), and a navigation operation changes nothing but the cursor.
C34_TreeStructure ==
    /\ []TreeWellFormed
    /\ [][treeop' \in NavigationOps => nodes' = nodes]_vars

\* the cursor on a node whose children were cleared after a variation was
\* added, reached by go_to_move_number
C34_Witness ==
    /\ treeop = "go_to_move_number"
    /\ current # 1
    /\ \E n \in 1..Len(nodes) : ~ReachableFromRoot(nodes, n)
    /\ \E n \in 1..Len(nodes) : nodes[n].is_pass

\* lines 191-242 of analysis.py on the tree's main line: the verdict of the
\* node at main-line index i (the root is index 0), with an answered query
BatchVerdict(tree, i) ==
    create_position_analysis(i, tree[get_main_line(tree)[i + 1]], AnswerA1, ParseBoardSize,
                             TRUE, TRUE, NoAnswer, ErrorThreshold)

\* C37: the move_number of the verdict of every main-line node with a move
\* equals that node's get_move_number(), and go_to_move_number of it
\* succeeds and puts the cursor on that node.
C37_VerdictNumberIsMoveNumber ==
    LET line == get_main_line(nodes)
    IN  \A i \in 1..(Len(line) - 1) :
            IsMoveNode(nodes[line[i + 1]]) =>
                /\ BatchVerdict(nodes, i).move_number = get_move_number(nodes, line[i + 1])
                /\ go_to_move_number(nodes, BatchVerdict(nodes, i).move_number)
                      = [current |-> line[i + 1], ok |-> TRUE]

\* C36: the colour named in the analyze command of a position
\* (self.next_player of its engine at that moment) is the colour of the
\* main-line node that moves in that position.
C36_AnalyzeNamesMover ==
    [][\A t \in Tasks :
          (~tasked[t] /\ tasked'[t]) => enext[EngineOf(t)] = PlayColor(game[t])]_vars

(***************************************************************************)
(* The main window's two analysis commands.  Each handler runs on the UI   *)
(* thread and starts a background thread; the threads run concurrently     *)
(* with the UI thread and with each other.                                 *)
(***************************************************************************)
MaxClicks == 4

InitUi ==
    /\ CodecIdle /\ ParseIdle /\ VerdictIdle /\ TreeIdle /\ ParIdle /\ SeqIdle /\ EngIdle
    /\ InfoIdle
    /\ UiIdle

uiFixed == <<codecVars, parseVars, verdictVars, treeVars, parVars, seqVars, engVars, infoVars>>

\* _analyze_game, lines 696-763, on the UI thread: return when is_analyzing,
\* otherwise start analyze_thread
ClickAnalyzeGame ==
    /\ uclicks < MaxClicks
    /\ uclicks' = uclicks + 1
    /\ IF is_analyzing THEN UNCHANGED gspawned ELSE gspawned' = gspawned + 1
    /\ UNCHANGED <<is_analyzing, grunning, pspawned, prunning>>
    /\ UNCHANGED uiFixed

\* line 707, first statement of analyze_thread: self.is_analyzing = True;
\* the thread then calls analyzer.analyze_game, which queries self.engine
GameThreadBegins ==
    /\ gspawned > 0
    /\ gspawned' = gspawned - 1
    /\ grunning' = grunning + 1
    /\ is_analyzing' = TRUE
    /\ UNCHANGED <<pspawned, prunning, uclicks>>
    /\ UNCHANGED uiFixed

\* lines 759-761, the finally clause: self.is_analyzing = False
GameThreadEnds ==
    /\ grunning > 0
    /\ grunning' = grunning - 1
    /\ is_analyzing' = FALSE
    /\ UNCHANGED <<gspawned, pspawned, prunning, uclicks>>
    /\ UNCHANGED uiFixed

\* _analyze_position, lines 765-788, on the UI thread: start analyze_thread
ClickAnalyzePosition ==
    /\ uclicks < MaxClicks
    /\ uclicks' = uclicks + 1
    /\ pspawned' = pspawned + 1
    /\ UNCHANGED <<is_analyzing, gspawned, grunning, prunning>>
    /\ UNCHANGED uiFixed

\* lines 775-780: the thread calls analyzer.analyze_position, which queries
\* self.engine
PositionThreadBegins ==
    /\ pspawned > 0
    /\ pspawned' = pspawned - 1
    /\ prunning' = prunning + 1
    /\ UNCHANGED <<is_analyzing, gspawned, grunning, uclicks>>
    /\ UNCHANGED uiFixed

PositionThreadEnds ==
    /\ prunning > 0
    /\ prunning' = prunning - 1
    /\ UNCHANGED <<is_analyzing, gspawned, grunning, pspawned, uclicks>>
    /\ UNCHANGED uiFixed

NextUi ==
    \/ ClickAnalyzeGame
    \/ GameThreadBegins
    \/ GameThreadEnds
    \/ ClickAnalyzePosition
    \/ PositionThreadBegins
    \/ PositionThreadEnds

SpecUi == InitUi /\ [][NextUi]_vars

\* C38: at most one whole-game analysis is inside analyze_game at a time,
\* and no single-position analysis is inside analyze_position while a
\* whole-game analysis is inside analyze_game.
C38_PrimarySerialized ==
    /\ grunning <= 1
    /\ ~(grunning >= 1 /\ prunning >= 1)

\* C40: GameAnalyzer.analyze_position on the main-line index of a move node
\* reports that index and that node's move as the played move, and, when
\* that move is among the candidates, the candidate it reports as played is
\* the one of that move, as in the batch verdict of the node.
C40_SingleAgreesWithBatch ==
    vpc = "single" =>
        LET top_moves == parse_move_candidates(vdata, ParseBoardSize)
        IN  /\ verdict[1].move_number = 1
            /\ verdict[1].played_move = vnode.move
            /\ FindPlayed(vnode, top_moves) # <<>> =>
                  verdict[1].played_move_analysis = FindPlayed(vnode, top_moves)

\* C35: when set_board_size, clear_board or play_move returns a value judged
\* on an '=' or '?' line, that line is the engine's response to the command
\* the operation itself sent, and every line the call took from the queue
\* was written for that command or for no command at all.
C35_ResponsePairing ==
    (callpc = "idle" /\ last.op \in {"set_board_size", "clear_board", "play_move"}
        /\ last.id = cid /\ last.result \in {"ok", "fail"}
        /\ clines.first \in {"eq", "err"}) =>
        clines.from = cid

(***************************************************************************)
(* One round trip of the codec over every board size and coordinate.       *)
(***************************************************************************)
BoardSizes == {9, 13, 19}

InitCodec ==
    /\ ParseIdle /\ VerdictIdle /\ TreeIdle /\ ParIdle /\ SeqIdle /\ EngIdle /\ InfoIdle /\ UiIdle
    /\ csize \in BoardSizes
    /\ crow \in 0..(csize - 1)
    /\ ccol \in 0..(csize - 1)
    /\ ctext = <<>>
    /\ cdec = NoneCoords
    /\ cpc = "start"

Encode ==
    /\ cpc = "start"
    /\ ctext' = coords_to_gtp(crow, ccol, csize)
    /\ cpc' = "encoded"
    /\ UNCHANGED <<csize, crow, ccol, cdec>>
    /\ UNCHANGED <<parseVars, verdictVars, treeVars, parVars, seqVars, engVars, infoVars, uiVars>>

Decode ==
    /\ cpc = "encoded"
    /\ cdec' = gtp_to_coords(ctext, csize)
    /\ cpc' = "decoded"
    /\ UNCHANGED <<csize, crow, ccol, ctext>>
    /\ UNCHANGED <<parseVars, verdictVars, treeVars, parVars, seqVars, engVars, infoVars, uiVars>>

NextCodec ==
    \/ Encode
    \/ Decode

SpecCodec == InitCodec /\ [][NextCodec]_vars

\* C1: for every board size in {9, 13, 19} and every on-board (row, col),
\* decoding the encoded text gives back (row, col).
C1_RoundTrip == cpc = "decoded" => cdec = Coords(crow, ccol)

\* a round trip through a column at or past the skipped letter, two-digit row
C1_Witness ==
    /\ cpc = "decoded" /\ csize = 19 /\ ccol >= 8 /\ crow < 10
    /\ cdec = Coords(crow, ccol)

(***************************************************************************)
(* The codec on arbitrary inputs: any text is decoded, any pair of         *)
(* integers around the board is encoded.                                   *)
(***************************************************************************)
\* "A1", "a1", "A0", "I5", "Z99", "J10", "pass", "PASS", "", "A", "5A"
CodecTexts ==
    { <<65, 49>>, <<97, 49>>, <<65, 48>>, <<73, 53>>, <<90, 57, 57>>, <<74, 49, 48>>,
      PassText, <<80, 65, 83, 83>>, <<>>, <<65>>, <<53, 65>> }

OnBoard(row, col, board_size) ==
    row >= 0 /\ row < board_size /\ col >= 0 /\ col < board_size

InitCodecAny ==
    /\ ParseIdle /\ VerdictIdle /\ TreeIdle /\ ParIdle /\ SeqIdle /\ EngIdle /\ InfoIdle /\ UiIdle
    /\ csize \in BoardSizes
    /\ crow \in (0 - 1)..csize
    /\ ccol \in (0 - 1)..csize
    /\ ctext \in CodecTexts
    /\ cdec = NoneCoords
    /\ cpc = "start"

\* gtp_to_coords on a text that did not come from coords_to_gtp
DecodeText ==
    /\ cpc = "start"
    /\ cdec' = gtp_to_coords(ctext, csize)
    /\ cpc' = "parsed"
    /\ UNCHANGED <<csize, crow, ccol, ctext>>
    /\ UNCHANGED <<parseVars, verdictVars, treeVars, parVars, seqVars, engVars, infoVars, uiVars>>

NextCodecAny ==
    \/ Encode
    \/ Decode
    \/ DecodeText

SpecCodecAny == InitCodecAny /\ [][NextCodecAny]_vars

\* C24: the codec never yields an off-board coordinate: decoding returns
\* coordinates only when they lie on the board (it fails for malformed text
\* and for a column or row outside the board), encoding returns a text only
\* for a row and column within 0..size-1, and a pass decodes to the sentinel.
C24_CodecRejectsOffBoard ==
    /\ cpc = "encoded" => OnBoard(crow, ccol, csize)
    /\ (cpc = "parsed" /\ cdec.kind = "coords") => OnBoard(cdec.row, cdec.col, csize)
    /\ (cpc = "parsed" /\ LowerStr(ctext) = PassText) => cdec = NoneCoords

====
